---- MODULE Spec2Model ----
(***************************************************************************)
(* Metric evaluation and score fusion engine of the translation benchmark. *)
(*                                                                         *)
(* Python floats are modelled as exact rationals <<numerator, denominator>>*)
(* in lowest terms with a positive denominator.  Texts are sequences of    *)
(* one-character strings.  A Python dict is a sequence of <<key, value>>   *)
(* pairs in insertion order.  None is the string "None".                   *)
(***************************************************************************)
EXTENDS Integers, Sequences, FiniteSets, TLC

VARIABLES
    config,                \* ConfigManager._config, as leaf path -> value
    semantic_similarity,   \* Evaluator.semantic_similarity ("None" or the metric)
    source_text,           \* argument of the call
    target_text,           \* argument of the call
    target_lang,           \* argument of the call
    lang_probs,            \* what detect_langs answers for target_text
    embeddings,            \* what model.encode answers for [source, target]
    metric_results,        \* argument of fuse_scores / local of evaluate_translation
    op,                    \* the operation that ran last ("init" before any)
    detect_calls,          \* how many times detect_langs was called by that operation
    ret,                   \* what that operation returned or raised
    model_name,            \* SemanticSimilarityMetric.model_name
    _model,                \* SemanticSimilarityMetric._model ("None" or a model object)
    constructed,           \* the SentenceTransformer(...) calls made so far, in order
    used,                  \* the model objects encode was called on, in order
    pc,                    \* where each caller of evaluate stands
    local,                 \* each caller's arguments and the model object it holds
    started,               \* how many evaluate calls were started
    history,               \* the metric calls made on the instances so far
    database,              \* the committed rows of runs, translations, evaluations
    connection,            \* the rows flushed on the one connection, not yet committed
    requests,              \* each request's body and what its providers will answer
    handlers,              \* where each run_translation handler stands, and its locals
    fetched                \* what the last get_run answered

vars == <<config, semantic_similarity, source_text, target_text, target_lang,
          lang_probs, embeddings, metric_results, op, detect_calls, ret,
          model_name, _model, constructed, used, pc, local, started, history,
          database, connection, requests, handlers, fetched>>

\* the state of the routes and of the database
route_vars == <<database, connection, requests, handlers, fetched>>

None == "None"

\* F(v), with v evaluated once
Let(v, F(_)) == CHOOSE out \in {F(x) : x \in {v}} : TRUE
\* a warning is the sequence of the parts its text is formatted from; the
\* warning None, like the empty text, is falsy and is the empty sequence
NoWarning == <<>>

(***************************************************************************)
(* Exact arithmetic standing for float arithmetic.                         *)
(***************************************************************************)
Abs(n) == IF n < 0 THEN -n ELSE n

RECURSIVE GCD(_, _)
GCD(a, b) == IF b = 0 THEN a ELSE GCD(b, a % b)

\* n/d in lowest terms, d # 0
Q(n, d) ==
    LET g == GCD(Abs(n), Abs(d))
        s == IF d < 0 THEN -1 ELSE 1
    IN  <<(s * n) \div g, (s * d) \div g>>

Z(n) == <<n, 1>>
RAdd(x, y) == Q(x[1] * y[2] + y[1] * x[2], x[2] * y[2])
RSub(x, y) == Q(x[1] * y[2] - y[1] * x[2], x[2] * y[2])
RMul(x, y) == Q(x[1] * y[1], x[2] * y[2])
RDiv(x, y) == Q(x[1] * y[2], x[2] * y[1])      \* callers guard y # 0
RLt(x, y) == x[1] * y[2] < y[1] * x[2]
RLe(x, y) == x[1] * y[2] <= y[1] * x[2]
RMax(x, y) == IF RLt(x, y) THEN y ELSE x       \* Python max(x, y)
RMin(x, y) == IF RLt(y, x) THEN y ELSE x       \* Python min(x, y)
IsZero(x) == x[1] = 0

RECURSIVE RSum(_)
RSum(s) == IF s = <<>> THEN Z(0) ELSE RAdd(Head(s), RSum(Tail(s)))

\* f"{x:.2f}": the hundredths, rounded half-up, as text
Fmt2(x) == ToString((2 * 100 * x[1] + x[2]) \div (2 * x[2]))

(***************************************************************************)
(* Python exceptions that decide control flow.                             *)
(***************************************************************************)
Raise(exc) == [raised |-> exc]
Return(v) == [raised |-> None, value |-> v]
Raised(r) == r.raised # None

(***************************************************************************)
(* Characters and str methods.                                             *)
(***************************************************************************)
Whitespace == {" "}
Digits == {"1", "2"}
UpperCase == {"A"}
LowerCase == {"a"}
\* the members of string.punctuation the model's alphabet has
Punctuation == {".", "%"}

IsSpaceChar(c) == c \in Whitespace
\* not text.strip()
IsBlank(text) == \A i \in 1..Len(text) : IsSpaceChar(text[i])
\* not text
IsEmpty(text) == Len(text) = 0

(***************************************************************************)
(* ConfigManager.  A key "a.b.c" is the sequence <<"a", "b", "c">> that     *)
(* key.split(".") yields; the loaded YAML tree is the function from each   *)
(* leaf's path to its value, and a proper prefix of a leaf path is a dict. *)
(***************************************************************************)
IsLeaf(c, p) == p \in DOMAIN c
IsDict(c, p) == \E q \in DOMAIN c : Len(q) > Len(p) /\ SubSeq(q, 1, Len(p)) = p

\* the loop of ConfigManager.get, standing at node `at` with `keys` left
RECURSIVE config_walk(_, _, _, _)
config_walk(c, at, keys, default) ==
    IF keys = <<>>
    THEN IF IsLeaf(c, at) THEN c[at] ELSE [dict |-> at]
    ELSE IF IsDict(c, at)
         THEN LET nxt == Append(at, Head(keys))
              IN  IF ~IsLeaf(c, nxt) /\ ~IsDict(c, nxt)
                  THEN default                       \* value.get(k) is None
                  ELSE config_walk(c, nxt, Tail(keys), default)
         ELSE default                                \* not a dict

config_get(key, default) == config_walk(config, <<>>, key, default)

\* f"metrics.{category}.{metric}.weight"
get_metric_weight(category, metric) ==
    config_get(<<"metrics", category, metric, "weight">>, Z(0))

\* is_metric_enabled taking a positive weight for the flag
is_metric_enabled_by_weight(category, metric) ==
    RLt(Z(0), get_metric_weight(category, metric))

\* is_metric_enabled with a metric on unless the file turns it off
is_metric_enabled_default_on(category, metric) ==
    config_get(<<"metrics", category, metric, "enabled">>, TRUE)

\* f"metrics.{category}.{metric}.enabled"
is_metric_enabled(category, metric) ==
    config_get(<<"metrics", category, metric, "enabled">>, FALSE)

CATEGORY_HEURISTICS == "heuristics"
CATEGORY_SEMANTIC == "semantic"
METRIC_OVERALL == "overall_score"
WARN_LOW_CONFIDENCE == "Low confidence in language detection"
WARN_LENGTH_ANOMALY == "Unusual length ratio detected"

(***************************************************************************)
(* Evaluator.__init__: the parameters the metrics are constructed with.    *)
(***************************************************************************)
min_ratio == config_get(<<"metrics", "heuristics", "length_ratio", "min_ratio">>, Q(1, 2))
max_ratio == config_get(<<"metrics", "heuristics", "length_ratio", "max_ratio">>, Z(2))
confidence_threshold == Q(4, 5)

\* self.semantic_similarity after __init__
Evaluator_init_semantic ==
    IF is_metric_enabled("semantic", "") THEN "SemanticSimilarityMetric" ELSE None

(***************************************************************************)
(* LengthRatioMetric.evaluate                                              *)
(***************************************************************************)
LengthRatio_evaluate(source, target) ==
    LET source_len == Len(source)
        target_len == Len(target)
    IN
    IF source_len = 0 THEN
        Return([score |-> Z(0), ratio |-> Z(0), source_length |-> 0,
                target_length |-> target_len, warning |-> <<"Empty source text">>])
    ELSE IF target_len = 0 THEN
        Return([score |-> Z(0), ratio |-> Z(0), source_length |-> source_len,
                target_length |-> 0, warning |-> <<"Empty translation">>])
    ELSE
    LET ratio == Q(target_len, source_len)
        inband == RLe(min_ratio, ratio) /\ RLe(ratio, max_ratio)
        \* the divisor of the branch taken
        divisor == IF inband
                   THEN IF RLt(ratio, Z(1)) THEN RSub(Z(1), min_ratio)
                                            ELSE RSub(max_ratio, Z(1))
                   ELSE IF RLt(ratio, min_ratio) THEN min_ratio ELSE ratio
        score == IF inband
                 THEN RMax(Z(50),
                        IF RLt(ratio, Z(1))
                        THEN RMul(RDiv(RSub(ratio, min_ratio), divisor), Z(100))
                        ELSE RMul(RDiv(RSub(max_ratio, ratio), divisor), Z(100)))
                 ELSE RMax(Z(0), RMin(Z(50),
                        IF RLt(ratio, min_ratio)
                        THEN RMul(RDiv(ratio, divisor), Z(50))
                        ELSE RMul(RDiv(max_ratio, divisor), Z(50))))
        warning == IF RLt(ratio, min_ratio)
                   THEN <<WARN_LENGTH_ANOMALY, ": translation too short (ratio: ",
                          Fmt2(ratio), ")">>
                   ELSE IF RLt(max_ratio, ratio)
                   THEN <<WARN_LENGTH_ANOMALY, ": translation too long (ratio: ",
                          Fmt2(ratio), ")">>
                   ELSE NoWarning
    IN  IF IsZero(divisor)
        THEN Raise("ZeroDivisionError")
        ELSE Return([score |-> score, ratio |-> ratio, source_length |-> source_len,
                     target_length |-> target_len, warning |-> warning])

(***************************************************************************)
(* LanguageDetectionMetric.evaluate.  `answer` is what detect_langs does   *)
(* for the text: Return(ranking) or Raise("LangDetectException").          *)
(***************************************************************************)
LangDetectMessage == "No features in text."

\* LanguageDetection_run with full marks only above the threshold
LanguageDetection_run_strict(target, lang, answer) ==
    IF IsEmpty(target) \/ IsBlank(target) THEN
        [calls |-> 0,
         out |-> Return([score |-> Z(0), detected_lang |-> None, confidence |-> Z(0),
                         matches_target |-> "False",
                         warning |-> <<"Empty translation">>])]
    ELSE IF Raised(answer) THEN
        [calls |-> 1,
         out |-> IF answer.raised = "LangDetectException"
                 THEN Return([score |-> Z(50), detected_lang |-> None,
                              confidence |-> Z(0), matches_target |-> None,
                              warning |-> <<"Language detection error: ",
                                            LangDetectMessage>>])
                 ELSE answer]
    ELSE IF answer.value = <<>> THEN
        [calls |-> 1,
         out |-> Return([score |-> Z(0), detected_lang |-> None, confidence |-> Z(0),
                         matches_target |-> "False",
                         warning |-> <<"Could not detect language">>])]
    ELSE
    LET detected_lang == answer.value[1].lang
        confidence == answer.value[1].prob
        matches_target == detected_lang = lang
        score == IF matches_target
                 THEN IF RLt(confidence_threshold, confidence)
                      THEN Z(100)
                      ELSE RMul(confidence, Z(100))
                 ELSE Z(0)
        warning == IF ~matches_target
                   THEN <<"Language mismatch: expected '", lang, "', detected '",
                          detected_lang, "'">>
                   ELSE IF RLt(confidence, confidence_threshold)
                   THEN <<WARN_LOW_CONFIDENCE>>
                   ELSE NoWarning
    IN  [calls |-> 1,
         out |-> Return([score |-> score, detected_lang |-> detected_lang,
                         confidence |-> confidence,
                         matches_target |-> IF matches_target THEN "True" ELSE "False",
                         warning |-> warning,
                         all_probabilities |-> answer.value])]

\* LanguageDetection_run testing `not target_text` alone
LanguageDetection_run_unstripped(target, lang, answer) ==
    IF IsEmpty(target) THEN
        [calls |-> 0,
         out |-> Return([score |-> Z(0), detected_lang |-> None, confidence |-> Z(0),
                         matches_target |-> "False",
                         warning |-> <<"Empty translation">>])]
    ELSE IF Raised(answer) THEN
        [calls |-> 1,
         out |-> IF answer.raised = "LangDetectException"
                 THEN Return([score |-> Z(50), detected_lang |-> None,
                              confidence |-> Z(0), matches_target |-> None,
                              warning |-> <<"Language detection error: ",
                                            LangDetectMessage>>])
                 ELSE answer]
    ELSE IF answer.value = <<>> THEN
        [calls |-> 1,
         out |-> Return([score |-> Z(0), detected_lang |-> None, confidence |-> Z(0),
                         matches_target |-> "False",
                         warning |-> <<"Could not detect language">>])]
    ELSE
    LET detected_lang == answer.value[1].lang
        confidence == answer.value[1].prob
        matches_target == detected_lang = lang
        score == IF matches_target
                 THEN IF RLe(confidence_threshold, confidence)
                      THEN Z(100)
                      ELSE RMul(confidence, Z(100))
                 ELSE Z(0)
        warning == IF ~matches_target
                   THEN <<"Language mismatch: expected '", lang, "', detected '",
                          detected_lang, "'">>
                   ELSE IF RLt(confidence, confidence_threshold)
                   THEN <<WARN_LOW_CONFIDENCE>>
                   ELSE NoWarning
    IN  [calls |-> 1,
         out |-> Return([score |-> score, detected_lang |-> detected_lang,
                         confidence |-> confidence,
                         matches_target |-> IF matches_target THEN "True" ELSE "False",
                         warning |-> warning,
                         all_probabilities |-> answer.value])]

LanguageDetection_run(target, lang, answer) ==
    IF IsEmpty(target) \/ IsBlank(target) THEN
        [calls |-> 0,
         out |-> Return([score |-> Z(0), detected_lang |-> None, confidence |-> Z(0),
                         matches_target |-> "False",
                         warning |-> <<"Empty translation">>])]
    ELSE IF Raised(answer) THEN
        [calls |-> 1,
         out |-> IF answer.raised = "LangDetectException"
                 THEN Return([score |-> Z(50), detected_lang |-> None,
                              confidence |-> Z(0), matches_target |-> None,
                              warning |-> <<"Language detection error: ",
                                            LangDetectMessage>>])
                 ELSE answer]
    ELSE IF answer.value = <<>> THEN
        [calls |-> 1,
         out |-> Return([score |-> Z(0), detected_lang |-> None, confidence |-> Z(0),
                         matches_target |-> "False",
                         warning |-> <<"Could not detect language">>])]
    ELSE
    LET detected_lang == answer.value[1].lang
        confidence == answer.value[1].prob
        matches_target == detected_lang = lang
        score == IF matches_target
                 THEN IF RLe(confidence_threshold, confidence)
                      THEN Z(100)
                      ELSE RMul(confidence, Z(100))
                 ELSE Z(0)
        warning == IF ~matches_target
                   THEN <<"Language mismatch: expected '", lang, "', detected '",
                          detected_lang, "'">>
                   ELSE IF RLt(confidence, confidence_threshold)
                   THEN <<WARN_LOW_CONFIDENCE>>
                   ELSE NoWarning
    IN  [calls |-> 1,
         out |-> Return([score |-> score, detected_lang |-> detected_lang,
                         confidence |-> confidence,
                         matches_target |-> IF matches_target THEN "True" ELSE "False",
                         warning |-> warning,
                         all_probabilities |-> answer.value])]

(***************************************************************************)
(* str.lower() and str.split()                                             *)
(***************************************************************************)
LowerOf == ("A" :> "a")
lower(text) == [i \in 1..Len(text) |->
                  IF text[i] \in DOMAIN LowerOf THEN LowerOf[text[i]] ELSE text[i]]

\* length of the longest prefix of text made of characters of set S
RECURSIVE Run(_, _)
Run(text, S) == IF text = <<>> \/ Head(text) \notin S THEN 0
                ELSE 1 + Run(Tail(text), S)

Drop(text, n) == SubSeq(text, n + 1, Len(text))

RECURSIVE split(_)
split(text) ==
    Let(text, LAMBDA t :
        IF t = <<>> THEN <<>>
        ELSE IF IsSpaceChar(Head(t)) THEN split(Tail(t))
        ELSE Let(CHOOSE j \in 1..Len(t) :
                     /\ \A i \in 1..j : ~IsSpaceChar(t[i])
                     /\ (j = Len(t) \/ IsSpaceChar(t[j + 1])),
                 LAMBDA k : <<SubSeq(t, 1, k)>> \o split(Drop(t, k))))

Range(s) == {s[i] : i \in 1..Len(s)}

(***************************************************************************)
(* RepetitionMetric                                                        *)
(***************************************************************************)
MAX_NGRAM_SIZE == 4
REPETITION_THRESHOLD == Q(3, 10)
WARN_HIGH_REPETITION == "High repetition detected in translation"

\* get_ngrams without text.lower()
get_ngrams_cased(text, n) ==
    Let(split(text), LAMBDA words :
        IF Len(words) < n THEN <<>>
        ELSE [i \in 1..(Len(words) - n + 1) |-> SubSeq(words, i, i + n - 1)])

get_ngrams(text, n) ==
    Let(split(lower(text)), LAMBDA words :
        IF Len(words) < n THEN <<>>
        ELSE [i \in 1..(Len(words) - n + 1) |-> SubSeq(words, i, i + n - 1)])

SetMax(S) == CHOOSE x \in S : \A y \in S : y <= x

\* calculate_repetition_score taking the frequency factor whatever max_count
calculate_repetition_score_unguarded(ngrams) ==
    IF ngrams = <<>> THEN Z(0)
    ELSE
    LET total_ngrams == Len(ngrams)
        unique_ngrams == Cardinality(Range(ngrams))
        count(g) == Cardinality({i \in 1..Len(ngrams) : ngrams[i] = g})
        repetition == RSub(Z(1), Q(unique_ngrams, total_ngrams))
        max_count == SetMax({count(g) : g \in Range(ngrams)})
    IN  RMax(repetition, RMin(Q(max_count, total_ngrams), Z(1)))

calculate_repetition_score(ngrams) ==
    IF ngrams = <<>> THEN Z(0)
    ELSE
    LET total_ngrams == Len(ngrams)
        unique_ngrams == Cardinality(Range(ngrams))
        count(g) == Cardinality({i \in 1..Len(ngrams) : ngrams[i] = g})
        repetition == RSub(Z(1), Q(unique_ngrams, total_ngrams))
        max_count == SetMax({count(g) : g \in Range(ngrams)})
    IN  Let(max_count, LAMBDA most :
            IF most > 1
            THEN RMax(repetition, RMin(Q(most, total_ngrams), Z(1)))
            ELSE repetition)

\* the loop over n = from..max_ngram_size of evaluate; acc holds
\* repetition_scores (as <<n, rep_score>> in insertion order) and max_repetition
RECURSIVE repetition_loop(_, _, _)
repetition_loop(target, n, acc) ==
    IF n > MAX_NGRAM_SIZE THEN acc
    ELSE Let(get_ngrams(target, n), LAMBDA ngrams :
             Let(calculate_repetition_score(ngrams), LAMBDA rep_score :
                 Let(IF ngrams # <<>>
                     THEN [scores |-> Append(acc.scores, <<n, rep_score>>),
                           max |-> RMax(acc.max, rep_score)]
                     ELSE acc,
                     LAMBDA next : repetition_loop(target, n + 1, next))))

\* Repetition_evaluate warning from the threshold on
Repetition_evaluate_at_threshold(source, target) ==
    IF IsEmpty(target) \/ IsBlank(target) THEN
        Return([score |-> Z(0), repetition_score |-> Z(0),
                warning |-> <<"Empty translation">>])
    ELSE
    Let(repetition_loop(target, 2, [scores |-> <<>>, max |-> Z(0)]), LAMBDA looped :
        LET max_repetition == looped.max
            score == RMul(RSub(Z(1), max_repetition), Z(100))
            warning == IF RLe(REPETITION_THRESHOLD, max_repetition)
                       THEN <<WARN_HIGH_REPETITION, " (score: ",
                              Fmt2(max_repetition), ")">>
                       ELSE NoWarning
        IN  Return([score |-> score, repetition_score |-> max_repetition,
                    ngram_scores |-> looped.scores, warning |-> warning]))

Repetition_evaluate(source, target) ==
    IF IsEmpty(target) \/ IsBlank(target) THEN
        Return([score |-> Z(0), repetition_score |-> Z(0),
                warning |-> <<"Empty translation">>])
    ELSE
    Let(repetition_loop(target, 2, [scores |-> <<>>, max |-> Z(0)]), LAMBDA looped :
        LET max_repetition == looped.max
            score == RMul(RSub(Z(1), max_repetition), Z(100))
            warning == IF RLt(REPETITION_THRESHOLD, max_repetition)
                       THEN <<WARN_HIGH_REPETITION, " (score: ",
                              Fmt2(max_repetition), ")">>
                       ELSE NoWarning
        IN  Return([score |-> score, repetition_score |-> max_repetition,
                    ngram_scores |-> looped.scores, warning |-> warning]))

(***************************************************************************)
(* PreservationMetric                                                      *)
(***************************************************************************)
WARN_CONTENT_LOSS == "Potential content loss detected"
WARN_FORMAT_DRIFT == "Format preservation issues detected"

check_numbers ==
    config_get(<<"metrics", "heuristics", "preservation", "check_numbers">>, TRUE)
check_punctuation ==
    config_get(<<"metrics", "heuristics", "preservation", "check_punctuation">>, TRUE)
check_entities ==
    config_get(<<"metrics", "heuristics", "preservation", "check_entities">>, TRUE)

\* \w of the regular expression
WordChars == Digits \cup UpperCase \cup LowerCase
\* \b between the characters at positions i-1 and i of text
WordBoundary(text, i) ==
    LET before == i > 1 /\ text[i - 1] \in WordChars
        after == i <= Len(text) /\ text[i] \in WordChars
    IN  before # after

\* The end of the match of \b\d+(?:[.,]\d+)?%?\b that starts at position i,
\* 0 when there is none.  Every quantifier is greedy, so the alternatives
\* are tried longest first; a shorter run of digits is always followed by a
\* digit, where neither the next item nor \b can match.
number_match(text, i) ==
    IF ~(i <= Len(text) /\ text[i] \in Digits /\ WordBoundary(text, i)) THEN 0
    ELSE
    LET d1 == i + Run(Drop(text, i - 1), Digits)          \* after \d+
        hasgroup == /\ d1 + 1 <= Len(text)
                    /\ text[d1] \in {".", ","}
                    /\ text[d1 + 1] \in Digits
        d2 == IF hasgroup THEN d1 + 1 + Run(Drop(text, d1), Digits) ELSE 0
        ends == (IF hasgroup
                 THEN (IF d2 <= Len(text) /\ text[d2] = "%" THEN <<d2 + 1>> ELSE <<>>)
                      \o <<d2>>
                 ELSE <<>>)
                \o (IF d1 <= Len(text) /\ text[d1] = "%" THEN <<d1 + 1>> ELSE <<>>)
                \o <<d1>>
        ok == {k \in 1..Len(ends) : WordBoundary(text, ends[k])}
    IN  IF ok = {} THEN 0
        ELSE ends[CHOOSE k \in ok : \A j \in ok : k <= j]

\* re.findall scanning from position i
RECURSIVE findall_numbers(_, _)
findall_numbers(text, i) ==
    IF i > Len(text) THEN <<>>
    ELSE Let(number_match(text, i), LAMBDA e :
             IF e = 0 THEN Let(i + 1, LAMBDA next : findall_numbers(text, next))
             ELSE <<SubSeq(text, i, e - 1)>> \o findall_numbers(text, e))

extract_numbers(text) == findall_numbers(text, 1)

extract_punctuation_pattern(text) == SelectSeq(text, LAMBDA c : c \in Punctuation)

extract_capitalized_words(text) ==
    SelectSeq(split(text), LAMBDA w : w # <<>> /\ w[1] \in UpperCase)

\* calculate_preservation_score giving nothing for a source without items
calculate_preservation_score_strict(source_items, target_items) ==
    IF source_items = <<>> THEN Z(0)
    ELSE LET source_set == Range(source_items)
             target_set == Range(target_items)
             preserved == Cardinality(source_set \cap target_set)
             total == Cardinality(source_set)
         IN  IF total > 0 THEN RMul(Q(preserved, total), Z(100)) ELSE Z(100)

calculate_preservation_score(source_items, target_items) ==
    IF source_items = <<>> THEN Z(100)
    ELSE LET source_set == Range(source_items)
             target_set == Range(target_items)
             preserved == Cardinality(source_set \cap target_set)
             total == Cardinality(source_set)
         IN  IF total > 0 THEN RMul(Q(preserved, total), Z(100)) ELSE Z(100)

\* "; ".join(warnings)
RECURSIVE join(_)
join(warnings) ==
    IF warnings = <<>> THEN <<>>
    ELSE IF Len(warnings) = 1 THEN warnings[1]
    ELSE warnings[1] \o <<"; ">> \o join(Tail(warnings))

\* Preservation_scored averaging over the three checks whatever the toggles
Preservation_scored_by_three(source_numbers, target_numbers, source_punct, target_punct, source_entities, target_entities) ==
    LET number_score == calculate_preservation_score(source_numbers, target_numbers)
        missing == Len(source_numbers)
                   - Cardinality(Range(source_numbers) \cap Range(target_numbers))
        matches == Cardinality({i \in 1..Len(source_punct) :
                                  source_punct[i] \in Range(target_punct)})
        punct_score == IF source_punct # <<>>
                       THEN RMul(Q(matches, Len(source_punct)), Z(100))
                       ELSE Z(100)
        entity_score == calculate_preservation_score(source_entities, target_entities)
        \* scores, a dict in insertion order
        scores == (IF check_numbers THEN <<<<"numbers", number_score>>>> ELSE <<>>)
               \o (IF check_punctuation THEN <<<<"punctuation", punct_score>>>> ELSE <<>>)
               \o (IF check_entities THEN <<<<"entities", entity_score>>>> ELSE <<>>)
        warnings ==
               (IF check_numbers /\ RLt(number_score, Z(100))
                THEN <<<<WARN_CONTENT_LOSS, ": ", ToString(missing),
                         " number(s) not preserved">>>> ELSE <<>>)
            \o (IF check_punctuation /\ RLt(punct_score, Z(80))
                THEN <<<<WARN_FORMAT_DRIFT, ": punctuation pattern differs">>>> ELSE <<>>)
            \o (IF check_entities /\ RLt(entity_score, Z(80))
                THEN <<<<WARN_CONTENT_LOSS, ": some capitalized words not preserved">>>>
                ELSE <<>>)
    IN  Let(scores, LAMBDA sc :
            Return([score |-> IF sc # <<>>
                              THEN RDiv(RSum([i \in 1..Len(sc) |-> sc[i][2]]),
                                        Z(3))
                              ELSE Z(100),
                    component_scores |-> sc,
                    warning |-> IF warnings # <<>> THEN join(warnings) ELSE NoWarning]))

\* evaluate once the items of both texts are extracted
Preservation_scored(source_numbers, target_numbers, source_punct, target_punct, source_entities, target_entities) ==
    LET number_score == calculate_preservation_score(source_numbers, target_numbers)
        missing == Len(source_numbers)
                   - Cardinality(Range(source_numbers) \cap Range(target_numbers))
        matches == Cardinality({i \in 1..Len(source_punct) :
                                  source_punct[i] \in Range(target_punct)})
        punct_score == IF source_punct # <<>>
                       THEN RMul(Q(matches, Len(source_punct)), Z(100))
                       ELSE Z(100)
        entity_score == calculate_preservation_score(source_entities, target_entities)
        \* scores, a dict in insertion order
        scores == (IF check_numbers THEN <<<<"numbers", number_score>>>> ELSE <<>>)
               \o (IF check_punctuation THEN <<<<"punctuation", punct_score>>>> ELSE <<>>)
               \o (IF check_entities THEN <<<<"entities", entity_score>>>> ELSE <<>>)
        warnings ==
               (IF check_numbers /\ RLt(number_score, Z(100))
                THEN <<<<WARN_CONTENT_LOSS, ": ", ToString(missing),
                         " number(s) not preserved">>>> ELSE <<>>)
            \o (IF check_punctuation /\ RLt(punct_score, Z(80))
                THEN <<<<WARN_FORMAT_DRIFT, ": punctuation pattern differs">>>> ELSE <<>>)
            \o (IF check_entities /\ RLt(entity_score, Z(80))
                THEN <<<<WARN_CONTENT_LOSS, ": some capitalized words not preserved">>>>
                ELSE <<>>)
    IN  Let(scores, LAMBDA sc :
            Return([score |-> IF sc # <<>>
                              THEN RDiv(RSum([i \in 1..Len(sc) |-> sc[i][2]]),
                                        Z(Len(sc)))
                              ELSE Z(100),
                    component_scores |-> sc,
                    warning |-> IF warnings # <<>> THEN join(warnings) ELSE NoWarning]))

Preservation_evaluate(source, target) ==
    IF IsEmpty(target) \/ IsBlank(target) THEN
        Return([score |-> Z(0), warning |-> <<"Empty translation">>])
    ELSE
    Let(<<extract_numbers(source), extract_numbers(target),
          extract_punctuation_pattern(source), extract_punctuation_pattern(target),
          extract_capitalized_words(source), extract_capitalized_words(target)>>,
        LAMBDA items : Preservation_scored(items[1], items[2], items[3], items[4],
                                           items[5], items[6]))

(***************************************************************************)
(* SemanticSimilarityMetric.  `answer` is what self.model.encode does for  *)
(* [source, target]: Return(<<vec1, vec2>>), or Raise(exc) when loading    *)
(* the model or encoding fails.  The norm of a vector is seldom a float,   *)
(* so this metric's arithmetic is the floating-point arithmetic of the     *)
(* code: every operation gives the exact result rounded to the nearest     *)
(* number with a significand of FloatBits bits, ties to even (IEEE 754     *)
(* with a shorter significand than the 53 bits of a Python float, and no   *)
(* bound on the exponent).                                                 *)
(***************************************************************************)
FloatBits == 6       \* bits in the significand of a float

\* the whole number nearest to x >= 0, a tie going to the even one
RoundHalfEven(x) ==
    LET q == x[1] \div x[2]
        r == x[1] % x[2]
    IN  IF 2 * r < x[2] THEN q
        ELSE IF 2 * r > x[2] THEN q + 1
        ELSE IF q % 2 = 0 THEN q ELSE q + 1

RECURSIVE FloatPos(_)
FloatPos(x) ==
    IF RLe(Z(2 ^ FloatBits), x) THEN RMul(Z(2), FloatPos(RDiv(x, Z(2))))
    ELSE IF RLt(x, Z(2 ^ (FloatBits - 1))) THEN RDiv(FloatPos(RMul(x, Z(2))), Z(2))
    ELSE Z(RoundHalfEven(x))

\* the float nearest to the rational x
Float(x) ==
    IF IsZero(x) THEN x
    ELSE IF x[1] < 0 THEN RSub(Z(0), FloatPos(RSub(Z(0), x)))
    ELSE FloatPos(x)

\* the float nearest to the square root of the float x >= 0
RECURSIVE FloatSqrt(_)
FloatSqrt(x) ==
    IF IsZero(x) THEN x
    ELSE IF RLe(Z(4 ^ FloatBits), x) THEN RMul(Z(2), FloatSqrt(RDiv(x, Z(4))))
    ELSE IF RLt(x, Z(4 ^ (FloatBits - 1))) THEN RDiv(FloatSqrt(RMul(x, Z(4))), Z(2))
    ELSE Z(CHOOSE m \in (2 ^ (FloatBits - 1))..(2 ^ FloatBits) :
               /\ (2 * m - 1) * (2 * m - 1) * x[2] <= 4 * x[1]
               /\ 4 * x[1] < (2 * m + 1) * (2 * m + 1) * x[2])

\* np.dot: the products and their running sum, each rounded
RECURSIVE dot_from(_, _, _)
dot_from(acc, vec1, vec2) ==
    IF vec1 = <<>> THEN acc
    ELSE dot_from(Float(RAdd(acc, Float(Z(Head(vec1) * Head(vec2))))),
                  Tail(vec1), Tail(vec2))

dot(vec1, vec2) == dot_from(Z(0), vec1, vec2)

\* np.linalg.norm of a vector: sqrt(dot(x, x))
norm(vec) == FloatSqrt(dot(vec, vec))

cosine_similarity(vec1, vec2) ==
    LET dot_product == dot(vec1, vec2)
        norm1 == norm(vec1)
        norm2 == norm(vec2)
    IN  IF IsZero(norm1) \/ IsZero(norm2) THEN Z(0)
        ELSE Float(RDiv(dot_product, Float(RMul(norm1, norm2))))

\* Semantic_evaluate without the floor at 0
Semantic_evaluate_unfloored(source, target, answer) ==
    IF IsEmpty(source) \/ IsEmpty(target) THEN
        Return([score |-> Z(0), similarity |-> Z(0), warning |-> <<"Empty text">>])
    ELSE IF Raised(answer) THEN                      \* except Exception
        Return([score |-> Z(0), similarity |-> Z(0),
                warning |-> <<"Similarity calculation error: ", answer.raised>>])
    ELSE
    LET similarity == cosine_similarity(answer.value[1], answer.value[2])
        score == Float(RMul(similarity, Z(100)))
    IN  Return([score |-> score, similarity |-> similarity,
                model |-> "model_name", warning |-> NoWarning])

Semantic_evaluate(source, target, answer) ==
    IF IsEmpty(source) \/ IsEmpty(target) THEN
        Return([score |-> Z(0), similarity |-> Z(0), warning |-> <<"Empty text">>])
    ELSE IF Raised(answer) THEN                      \* except Exception
        Return([score |-> Z(0), similarity |-> Z(0),
                warning |-> <<"Similarity calculation error: ", answer.raised>>])
    ELSE
    LET similarity == cosine_similarity(answer.value[1], answer.value[2])
        score == Float(RMul(RMax(Z(0), similarity), Z(100)))
    IN  Return([score |-> score, similarity |-> similarity,
                model |-> "model_name", warning |-> NoWarning])

(***************************************************************************)
(* SemanticSimilarityMetric.model, the lazily loaded embedding model.  A   *)
(* model object is named by the position of its construction in            *)
(* constructed, written as a string.                                       *)
(***************************************************************************)
EMBEDDING_MODEL_MULTILINGUAL == "sentence-transformers/paraphrase-multilingual-MiniLM-L12-v2"

\* the test of the property with every use loading anew
model_is_unloaded_always(m) == TRUE

\* the test of the property that gives up after a first failed construction
model_is_unloaded_once(m) == m = None /\ constructed = <<>>

\* `if self._model is None`
model_is_unloaded(m) == m = None

\* evaluate as a whole, run by one caller on an instance holding model m:
\* backend tells whether the constructor would succeed and what encode
\* would answer.  Yields the outcome, the _model left behind and the
\* constructor calls made.
Semantic_call(m, source, target, backend) ==
    IF IsEmpty(source) \/ IsEmpty(target)
    THEN [out |-> Semantic_evaluate(source, target, Return(<<>>)), model |-> m, built |-> <<>>]
    ELSE IF model_is_unloaded(m)
    THEN IF backend.construct
         THEN [out |-> Semantic_evaluate(source, target, backend.encode),
               model |-> ToString(Len(constructed) + 1),
               built |-> <<[model_name |-> model_name, ok |-> TRUE]>>]
         ELSE [out |-> Semantic_evaluate(source, target, Raise("model unavailable")),
               model |-> m,
               built |-> <<[model_name |-> model_name, ok |-> FALSE]>>]
    ELSE [out |-> Semantic_evaluate(source, target,
                     IF m = None
                     THEN Raise("'NoneType' object has no attribute 'encode'")
                     ELSE backend.encode),
          model |-> m, built |-> <<>>]

(***************************************************************************)
(* ScoreFusion.  metric_results is a dict: a sequence of <<name, result>>. *)
(***************************************************************************)
\* metric_config_map of _get_metric_weight
metric_config_map ==
    [language_detection |-> <<CATEGORY_HEURISTICS, "language_detection">>,
     length_ratio |-> <<CATEGORY_HEURISTICS, "length_ratio">>,
     repetition |-> <<CATEGORY_HEURISTICS, "repetition">>,
     preservation |-> <<CATEGORY_HEURISTICS, "preservation">>,
     semantic_similarity |-> <<CATEGORY_SEMANTIC, "">>]

ScoreFusion_get_metric_weight(metric_name) ==
    IF metric_name \in DOMAIN metric_config_map
    THEN LET category == metric_config_map[metric_name][1]
             metric == metric_config_map[metric_name][2]
         IN  IF metric # ""
             THEN get_metric_weight(category, metric)
             ELSE config_get(<<"metrics", category, "weight">>, Z(0))
    ELSE Z(0)

\* kept with the test weight >= 0
kept_nonnegative(item) ==
    /\ item[1] # METRIC_OVERALL
    /\ RLe(Z(0), ScoreFusion_get_metric_weight(item[1]))

\* whether the loop of fuse_scores keeps the item
kept(item) ==
    /\ item[1] # METRIC_OVERALL
    /\ RLt(Z(0), ScoreFusion_get_metric_weight(item[1]))

\* MetricResult carrying the weighted score as its value
MetricResult_weighted(item) ==
    [name |-> item[1],
     value |-> RMul(item[2].score, ScoreFusion_get_metric_weight(item[1])),
     weight |-> ScoreFusion_get_metric_weight(item[1]), details |-> item[2]]

MetricResult(item) ==
    [name |-> item[1], value |-> item[2].score,
     weight |-> ScoreFusion_get_metric_weight(item[1]), details |-> item[2]]

quality(overall_score) ==
    IF RLe(Z(90), overall_score) THEN "Excellent"
    ELSE IF RLe(Z(75), overall_score) THEN "Good"
    ELSE IF RLe(Z(60), overall_score) THEN "Fair"
    ELSE "Poor"

\* sorted_before with equal keys in reverse order
sorted_before_unstable(metrics, i, j) ==
    LET ki == RMul(metrics[i].value, metrics[i].weight)
        kj == RMul(metrics[j].value, metrics[j].weight)
    IN  RLt(kj, ki) \/ (ki = kj /\ i > j)

\* sorted(metrics, key=value*weight, reverse=True): a stable sort, so equal
\* keys keep their order; position i goes before position j
sorted_before(metrics, i, j) ==
    LET ki == RMul(metrics[i].value, metrics[i].weight)
        kj == RMul(metrics[j].value, metrics[j].weight)
    IN  RLt(kj, ki) \/ (ki = kj /\ i < j)

sorted_metrics(metrics) ==
    [r \in 1..Len(metrics) |->
        metrics[CHOOSE i \in 1..Len(metrics) :
                  Cardinality({j \in 1..Len(metrics) : sorted_before(metrics, j, i)})
                  = r - 1]]

\* name.replace("_", " ").title()
title(name) ==
    CASE name = "language_detection" -> "Language Detection"
      [] name = "length_ratio" -> "Length Ratio"
      [] name = "repetition" -> "Repetition"
      [] name = "preservation" -> "Preservation"
      [] name = "semantic_similarity" -> "Semantic Similarity"
      [] name = "bleu" -> "Bleu"
      [] name = "overall_score" -> "Overall Score"

generate_explanation(metrics, overall_score) ==
    LET top_metrics == SubSeq(sorted_metrics(metrics), 1,
                              IF Len(metrics) < 3 THEN Len(metrics) ELSE 3)
    IN  [quality |-> quality(overall_score), score |-> overall_score,
         top_names |-> [i \in 1..Len(top_metrics) |-> title(top_metrics[i].name)]]

\* fuse_kept dividing by the number of kept metrics, not by their weight
fuse_kept_unweighted(keep, metric_list) ==
    LET weighted_scores == [i \in 1..Len(keep) |->
                               RMul(keep[i][2].score, metric_list[i].weight)]
        with_warning == SelectSeq(keep, LAMBDA item : item[2].warning # NoWarning)
        warnings == [i \in 1..Len(with_warning) |->
                        <<with_warning[i][1], ": ">> \o with_warning[i][2].warning]
        overall_score == IF weighted_scores # <<>>
                         THEN RDiv(RSum(weighted_scores), Z(Len(keep)))
                         ELSE Z(0)
    IN  [overall_score |-> overall_score, metrics |-> metric_list,
         warnings |-> warnings,
         explanation |-> generate_explanation(metric_list, overall_score)]

\* fuse_scores once its loop has built metric_list from the kept items
fuse_kept(keep, metric_list) ==
    LET weighted_scores == [i \in 1..Len(keep) |->
                               RMul(keep[i][2].score, metric_list[i].weight)]
        with_warning == SelectSeq(keep, LAMBDA item : item[2].warning # NoWarning)
        warnings == [i \in 1..Len(with_warning) |->
                        <<with_warning[i][1], ": ">> \o with_warning[i][2].warning]
        total_weight == RSum([i \in 1..Len(keep) |-> metric_list[i].weight])
        overall_score == IF weighted_scores # <<>>
                         THEN IF RLt(Z(0), total_weight)
                              THEN RDiv(RSum(weighted_scores), total_weight)
                              ELSE Z(0)
                         ELSE Z(0)
    IN  Let(overall_score, LAMBDA overall :
            [overall_score |-> overall, metrics |-> metric_list,
             warnings |-> warnings,
             explanation |-> generate_explanation(metric_list, overall)])

fuse_scores(results) ==
    Let(SelectSeq(results, kept), LAMBDA keep :
        Let([i \in 1..Len(keep) |-> MetricResult(keep[i])], LAMBDA metric_list :
            fuse_kept(keep, metric_list)))

(***************************************************************************)
(* Evaluator.evaluate_translation: the metrics in order, any exception of  *)
(* a metric propagating, then the fusion.  Yields what the call returns or *)
(* raises, the metric_results it built and the detect_langs calls it made. *)
(***************************************************************************)
NotCalled == Return(<<>>)

\* the handler once its metric calls are made; steps lists them in program
\* order as <<name, whether the call is made, its outcome>>
evaluate_translation_after(steps, calls) ==
    LET made == SelectSeq(steps, LAMBDA st : st[2])
        \* the calls that raise; the first of them ends the handler
        raising == {i \in 1..Len(made) : Raised(made[i][3])}
        done == IF raising = {} THEN Len(made)
                ELSE (CHOOSE i \in raising : \A j \in raising : i <= j) - 1
        results == [i \in 1..done |-> <<made[i][1], made[i][3].value>>]
    IN  IF raising # {}
        THEN [ret |-> made[done + 1][3], results |-> results, calls |-> calls]
        ELSE [ret |-> Return([translation_id |-> 1, provider_name |-> "provider",
                              model_id |-> "model",
                              score_breakdown |-> fuse_scores(results)]),
              results |-> results, calls |-> calls]

evaluate_translation(source, target, lang, detector, encoder) ==
    LET ld == LanguageDetection_run(target, lang, detector)
        ld_on == is_metric_enabled("heuristics", "language_detection")
        lr_on == is_metric_enabled("heuristics", "length_ratio")
        rp_on == is_metric_enabled("heuristics", "repetition")
        pr_on == is_metric_enabled("heuristics", "preservation")
        sm_on == semantic_similarity # None
        steps ==
            <<<<"language_detection", ld_on, IF ld_on THEN ld.out ELSE NotCalled>>,
              <<"length_ratio", lr_on,
                IF lr_on THEN LengthRatio_evaluate(source, target) ELSE NotCalled>>,
              <<"repetition", rp_on,
                IF rp_on THEN Repetition_evaluate(source, target) ELSE NotCalled>>,
              <<"preservation", pr_on,
                IF pr_on THEN Preservation_evaluate(source, target) ELSE NotCalled>>,
              <<"semantic_similarity", sm_on,
                IF sm_on THEN Semantic_evaluate(source, target, encoder)
                ELSE NotCalled>>>>
    IN  Let(steps, LAMBDA st :
            evaluate_translation_after(st, IF st[1][2] THEN ld.calls ELSE 0))

(***************************************************************************)
(* The inputs the operations are applied to.                               *)
(***************************************************************************)
MaxLen == 2          \* longest text given to a metric or to the evaluator
MaxRatioLen == 4     \* longest text given to LengthRatio
MaxRepLen == 5       \* longest target given to Repetition
MaxFuseLen == 2      \* most metrics in a mapping given to fuse_scores
MaxRepTokens == 11   \* most tokens in a phrase given to Repetition
MaxWords == 2        \* most words in a source sentence given to Preservation
MaxRanked == 4       \* most metrics in a result given to fuse_scores for ranking
MaxRepeats == 3      \* most metric calls made in a row on the same instances
MaxCalls == 3        \* most evaluate calls made on one SemanticSimilarityMetric
MaxThreads == 2      \* most concurrent callers of one SemanticSimilarityMetric

Texts(alphabet, n) == UNION {[1..k -> alphabet] : k \in 0..n}

\* targets of one-letter words joined by single spaces: word i is "a" or a
\* letter that no other word of the phrase is
FreshWords == <<"b", "c", "d", "e", "f", "g", "h", "i", "j", "k", "l", "m">>
Phrase(pick) ==
    [j \in 1..(2 * Len(pick) - 1) |->
        IF j % 2 = 0 THEN " "
        ELSE IF pick[(j + 1) \div 2] THEN "a" ELSE FreshWords[(j + 1) \div 2]]
Phrases == {Phrase(pick) : pick \in UNION {[1..k -> BOOLEAN] : k \in 1..MaxRepTokens}}

\* sentences: words joined by single spaces
PreservationWords == {<<"1">>, <<"2">>, <<"A">>, <<"A", ".">>, <<".">>, <<"%">>}
RECURSIVE Sentence(_)
Sentence(words) ==
    IF words = <<>> THEN <<>>
    ELSE IF Len(words) = 1 THEN words[1]
    ELSE words[1] \o <<" ">> \o Sentence(Tail(words))
Sentences(n) ==
    {Sentence(words) : words \in UNION {[1..k -> PreservationWords] : k \in 0..n}}

Heuristics == {"language_detection", "length_ratio", "repetition", "preservation"}
Weights == {Z(0), Z(1), Z(2)}
Bands == {<<Q(1, 2), Z(2)>>, <<Q(1, 2), Z(1)>>, <<Z(1), Z(2)>>,
          <<Q(3, 2), Z(3)>>, <<Q(1, 4), Q(3, 4)>>, <<Z(2), Q(1, 2)>>}
Langs == {"es", "fr"}
Probs == {Q(1, 2), Q(4, 5), Q(9, 10), Z(1)}

LangAnswers ==
    {Raise("LangDetectException"), Return(<<>>)}
    \cup {Return(<<[lang |-> l, prob |-> p]>>) : l \in Langs, p \in Probs}
    \cup {Return(<<[lang |-> l, prob |-> Q(3, 5)],
                   [lang |-> m, prob |-> Q(2, 5)]>>) : l, m \in Langs}

Vectors == {<<0, 0>>, <<3, 4>>, <<4, 3>>, <<-3, -4>>, <<1, 1>>, <<2, 3>>, <<1, 2>>}
EmbedAnswers ==
    {Raise("model unavailable"), Raise("encoding failed")} \cup {Return(<<a, b>>) : a, b \in Vectors}
NoEmbedding == Return(<<>>)      \* encode is not called

\* the YAML tree with the given leaves; a key outside a function's domain
\* is absent from the file
MkConfig(enabled, weight, band, toggles, sem) ==
    LET paths ==
            {<<"metrics", "heuristics", m, "enabled">> : m \in DOMAIN enabled}
            \cup {<<"metrics", "heuristics", m, "weight">> : m \in DOMAIN weight}
            \cup {<<"metrics", "heuristics", "length_ratio", k>> : k \in DOMAIN band}
            \cup {<<"metrics", "heuristics", "preservation", k>> : k \in DOMAIN toggles}
            \cup {<<"metrics", "semantic", k>> : k \in DOMAIN sem}
    IN  [p \in paths |->
            IF p[2] = "semantic" THEN sem[p[3]]
            ELSE IF p[4] = "enabled" THEN enabled[p[3]]
            ELSE IF p[4] = "weight" THEN weight[p[3]]
            ELSE IF p[4] \in DOMAIN band THEN band[p[4]]
            ELSE toggles[p[4]]]

Band(b) == [min_ratio |-> b[1], max_ratio |-> b[2]]
DefaultBand == Band(<<Q(1, 2), Z(2)>>)
AllOn == [m \in Heuristics |-> TRUE]
AllOne == [m \in Heuristics |-> Z(1)]
NoToggles == [k \in {} |-> TRUE]
Sem(e, w) == [enabled |-> e, weight |-> w]

\* configurations the evaluator is run under
EvalConfigs ==
    {MkConfig(e, [m \in Heuristics |-> w], DefaultBand, NoToggles, Sem(FALSE, Z(0))) :
        e \in [Heuristics -> BOOLEAN], w \in Weights}
    \cup {MkConfig(AllOn, w, DefaultBand, NoToggles, Sem(FALSE, Z(0))) :
        w \in [Heuristics -> Weights]}
    \cup {MkConfig(AllOn, AllOne, DefaultBand, NoToggles, Sem(e, w)) :
        e \in BOOLEAN, w \in Weights}
    \cup {MkConfig(AllOn, AllOne, Band(b), NoToggles, Sem(FALSE, Z(0))) : b \in Bands}
    \cup {MkConfig([m \in {} |-> TRUE], AllOne, DefaultBand, NoToggles, sm) :
        sm \in {Sem(TRUE, Z(1)), [weight |-> Z(1)]}}

\* configurations the metrics are run under
MetricConfigs ==
    {MkConfig(AllOn, AllOne, Band(b), NoToggles, Sem(TRUE, Z(1))) : b \in Bands}
    \cup {MkConfig(AllOn, AllOne, [k \in {} |-> Z(0)], NoToggles, Sem(TRUE, Z(1)))}
    \cup {MkConfig(AllOn, AllOne, DefaultBand,
                   [k \in {"check_numbers", "check_punctuation", "check_entities"}
                      |-> FALSE], Sem(TRUE, Z(1)))}

\* configurations Preservation is run under: every setting of the toggles,
\* and a file without them
PreservationConfigs ==
    {MkConfig(AllOn, AllOne, DefaultBand,
              [k \in {"check_numbers", "check_punctuation", "check_entities"} |-> on[k]],
              Sem(TRUE, Z(1))) :
        on \in [{"check_numbers", "check_punctuation", "check_entities"} -> BOOLEAN]}
    \cup {MkConfig(AllOn, AllOne, DefaultBand, NoToggles, Sem(TRUE, Z(1)))}

\* configurations fuse_scores is run under: a weight key may be absent
FusionConfigs ==
    {MkConfig(AllOn, w, DefaultBand, NoToggles, sm) :
        w \in UNION {[D -> Weights] : D \in {{"language_detection", "length_ratio"},
                                            {"length_ratio"}}},
        sm \in {Sem(TRUE, Z(1)), Sem(TRUE, Z(0)), [enabled |-> TRUE]}}

FuseNames == {"language_detection", "length_ratio", "semantic_similarity",
              "bleu", METRIC_OVERALL}
FuseOutcomes == {[score |-> sc, warning |-> w] :
                    sc \in {Z(50), Z(80)}, w \in {NoWarning, <<"w">>}}
\* dicts: no key twice
FuseMappings ==
    {m \in UNION {[1..k -> FuseNames \X FuseOutcomes] : k \in 0..MaxFuseLen} :
        \A i, j \in 1..Len(m) : i # j => m[i][1] # m[j][1]}

\* results in evaluation order, for the ranking of the explanation
EvaluationOrder == <<"language_detection", "length_ratio", "repetition", "preservation",
                     "semantic_similarity">>
RankedScores == {Z(40), Z(80), Z(100)}
RankedMappings ==
    UNION {{[i \in 1..k |-> <<EvaluationOrder[i], [score |-> sc[i], warning |-> NoWarning]>>] :
               sc \in [1..k -> RankedScores]} : k \in 0..MaxRanked}
RankedConfigs ==
    {MkConfig(AllOn, w, DefaultBand, NoToggles, Sem(TRUE, Z(1))) :
        w \in [Heuristics -> Weights]}

\* no request was made and the tables are empty
EmptyTables == [runs |-> <<>>, translations |-> <<>>, evaluations |-> <<>>]
NoRoutes ==
    /\ database = EmptyTables
    /\ connection = EmptyTables
    /\ requests = <<>>
    /\ handlers = <<>>
    /\ fetched = Return(<<>>)

(***************************************************************************)
(* State machine: the configuration is loaded and the Evaluator built once *)
(* (Init); every action is one call, with its arguments and the answers of *)
(* the detector and the embedding model drawn from the sets above.  A call *)
(* leaves config and semantic_similarity, all that a call reads, as they   *)
(* were, so every call is taken from the loaded state.                     *)
(***************************************************************************)
Started(configs) ==
    /\ config \in configs
    /\ semantic_similarity = Evaluator_init_semantic
    /\ source_text = <<>>
    /\ target_text = <<>>
    /\ target_lang = ""
    /\ lang_probs = Return(<<>>)
    /\ embeddings = NoEmbedding
    /\ metric_results = <<>>
    /\ op = "init"
    /\ detect_calls = 0
    /\ ret = Return(<<>>)
    /\ model_name = EMBEDDING_MODEL_MULTILINGUAL
    /\ _model = None
    /\ constructed = <<>>
    /\ used = <<>>
    /\ pc = <<>>
    /\ local = <<>>
    /\ started = 0
    /\ history = <<>>

Loaded(configs) ==
    /\ Started(configs)
    /\ NoRoutes

Call(name, source, target, lang, detector, encoder, results, calls, r) ==
    /\ op' = name
    /\ source_text' = source
    /\ target_text' = target
    /\ target_lang' = lang
    /\ lang_probs' = detector
    /\ embeddings' = encoder
    /\ metric_results' = results
    /\ detect_calls' = calls
    /\ ret' = r
    /\ UNCHANGED <<config, semantic_similarity>>
    /\ UNCHANGED <<model_name, _model, constructed, used, pc, local, started, history>>
    /\ UNCHANGED route_vars

LanguageDetectionEvaluate ==
    /\ op = "init"
    /\ \E t \in Texts({"a", " "}, MaxLen), l \in Langs, a \in LangAnswers :
           \E r \in {LanguageDetection_run(t, l, a)} :
               Call("LanguageDetectionMetric.evaluate", <<>>, t, l, a, NoEmbedding,
                    <<>>, r.calls, r.out)

LengthRatioEvaluate ==
    /\ op = "init"
    /\ \E s \in Texts({"a"}, MaxRatioLen),
          t \in Texts({"a"}, MaxRatioLen) \cup (Texts({" "}, MaxLen) \ {<<>>}) :
           Call("LengthRatioMetric.evaluate", s, t, "", Return(<<>>), NoEmbedding,
                <<>>, 0, LengthRatio_evaluate(s, t))

RepetitionEvaluate ==
    /\ op = "init"
    /\ \E t \in Texts({"a", "A", "b", " "}, MaxRepLen) :
           Call("RepetitionMetric.evaluate", <<>>, t, "", Return(<<>>), NoEmbedding,
                <<>>, 0, Repetition_evaluate(<<>>, t))

RepetitionEvaluatePhrases ==
    /\ op = "init"
    /\ \E t \in Phrases :
           Call("RepetitionMetric.evaluate", <<>>, t, "", Return(<<>>), NoEmbedding,
                <<>>, 0, Repetition_evaluate(<<>>, t))

PreservationEvaluate ==
    /\ op = "init"
    /\ \E s \in Texts({"A", "a", " ", "1", ".", "%"}, MaxLen),
          t \in Texts({"A", "a", " ", "1", ".", "%"}, MaxLen - 1) :
           Call("PreservationMetric.evaluate", s, t, "", Return(<<>>), NoEmbedding,
                <<>>, 0, Preservation_evaluate(s, t))

PreservationEvaluateSentences ==
    /\ op = "init"
    /\ \E s \in Sentences(MaxWords), t \in Sentences(MaxWords - 1) :
           Call("PreservationMetric.evaluate", s, t, "", Return(<<>>), NoEmbedding,
                <<>>, 0, Preservation_evaluate(s, t))

SemanticEvaluate ==
    /\ op = "init"
    /\ \E s \in Texts({"a"}, 1), t \in Texts({"a", " "}, 1), e \in EmbedAnswers :
           Call("SemanticSimilarityMetric.evaluate", s, t, "", Return(<<>>), e,
                <<>>, 0, Semantic_evaluate(s, t, e))

FuseScores ==
    /\ op = "init"
    /\ \E m \in FuseMappings :
           Call("ScoreFusion.fuse_scores", <<>>, <<>>, "", Return(<<>>), NoEmbedding,
                m, 0, Return(fuse_scores(m)))

FuseScoresRanked ==
    /\ op = "init"
    /\ \E m \in RankedMappings :
           Call("ScoreFusion.fuse_scores", <<>>, <<>>, "", Return(<<>>), NoEmbedding,
                m, 0, Return(fuse_scores(m)))

EvalLangAnswers ==
    {Raise("LangDetectException"), Return(<<>>),
     Return(<<[lang |-> "es", prob |-> Z(1)]>>),
     Return(<<[lang |-> "es", prob |-> Q(1, 2)]>>),
     Return(<<[lang |-> "fr", prob |-> Z(1)]>>)}

EvalEmbedAnswers ==
    {Raise("model unavailable"), Return(<<<<3, 4>>, <<4, 3>>>>),
     Return(<<<<1, 1>>, <<1, 1>>>>)}

EvaluateTranslation ==
    /\ op = "init"
    /\ \E s \in Texts({"a"}, MaxLen), t \in Texts({"a", " "}, MaxLen),
          a \in EvalLangAnswers,
          e \in (IF semantic_similarity = None THEN {NoEmbedding}
                 ELSE EvalEmbedAnswers) :
           \E r \in {evaluate_translation(s, t, "es", a, e)} :
               Call("Evaluator.evaluate_translation", s, t, "es", a, e,
                    r.results, r.calls, r.ret)

Init == Loaded(EvalConfigs)
Next == EvaluateTranslation
Spec == Init /\ [][Next]_vars

InitMetrics == Loaded(MetricConfigs)
NextMetrics ==
    \/ LanguageDetectionEvaluate
    \/ LengthRatioEvaluate
    \/ RepetitionEvaluate
    \/ PreservationEvaluate
    \/ SemanticEvaluate
SpecMetrics == InitMetrics /\ [][NextMetrics]_vars

InitRepetition == Loaded({MkConfig(AllOn, AllOne, DefaultBand, NoToggles, Sem(TRUE, Z(1)))})
NextRepetition ==
    \/ RepetitionEvaluate
    \/ RepetitionEvaluatePhrases
SpecRepetition == InitRepetition /\ [][NextRepetition]_vars

InitPreservation == Loaded(PreservationConfigs)
NextPreservation == PreservationEvaluateSentences
SpecPreservation == InitPreservation /\ [][NextPreservation]_vars

InitExplanation == Loaded(RankedConfigs)
NextExplanation == FuseScoresRanked
SpecExplanation == InitExplanation /\ [][NextExplanation]_vars

(***************************************************************************)
(* One SemanticSimilarityMetric called again and again, by one caller or   *)
(* by several threads.  A caller stands at "idle" (outside evaluate),      *)
(* "model" (the test of the property), "load" (the constructor), "store"   *)
(* (the assignment to _model), "return" (the property's return) or         *)
(* "encode".                                                               *)
(***************************************************************************)
ModelNames == {EMBEDDING_MODEL_MULTILINGUAL, "custom-model"}
ModelEncodeAnswers == {Raise("encoding failed"), Return(<<<<3, 4>>, <<4, 3>>>>)}

Constructed(callers) ==
    /\ config = MkConfig(AllOn, AllOne, DefaultBand, NoToggles, Sem(TRUE, Z(1)))
    /\ semantic_similarity = Evaluator_init_semantic
    /\ source_text = <<>>
    /\ target_text = <<>>
    /\ target_lang = ""
    /\ lang_probs = Return(<<>>)
    /\ embeddings = NoEmbedding
    /\ metric_results = <<>>
    /\ op = "init"
    /\ detect_calls = 0
    /\ ret = Return(<<>>)
    /\ model_name \in ModelNames
    /\ _model = None
    /\ constructed = <<>>
    /\ used = <<>>
    /\ pc = [t \in 1..callers |-> "idle"]
    /\ local = [t \in 1..callers |-> [source |-> <<>>, target |-> <<>>, model |-> None]]
    /\ started = 0
    /\ history = <<>>
    /\ NoRoutes

\* evaluate returns to its caller
Finish(t, answer) ==
    /\ pc' = [pc EXCEPT ![t] = "idle"]
    /\ op' = "SemanticSimilarityMetric.evaluate"
    /\ source_text' = local[t].source
    /\ target_text' = local[t].target
    /\ embeddings' = answer
    /\ ret' = Semantic_evaluate(local[t].source, local[t].target, answer)
    /\ UNCHANGED <<config, semantic_similarity, target_lang, lang_probs, metric_results,
                   detect_calls, model_name, history, database, connection, requests,
                   handlers, fetched>>

Position(t, at) ==
    /\ pc' = [pc EXCEPT ![t] = at]
    /\ UNCHANGED <<config, semantic_similarity, source_text, target_text, target_lang,
                   lang_probs, embeddings, metric_results, op, detect_calls, ret,
                   model_name, history, database, connection, requests, handlers,
                   fetched>>

\* evaluate is entered: an empty text returns at once, any other reaches
\* self.model
ModelEvaluate ==
    \E t \in DOMAIN pc : \E s, g \in Texts({"a"}, 1) :
        /\ pc[t] = "idle"
        /\ started < MaxCalls
        /\ started' = started + 1
        /\ local' = [local EXCEPT ![t] = [source |-> s, target |-> g, model |-> None]]
        /\ UNCHANGED <<_model, constructed, used>>
        /\ IF IsEmpty(s) \/ IsEmpty(g)
           THEN /\ op' = "SemanticSimilarityMetric.evaluate"
                /\ source_text' = s
                /\ target_text' = g
                /\ embeddings' = NoEmbedding
                /\ ret' = Semantic_evaluate(s, g, NoEmbedding)
                /\ UNCHANGED <<pc, config, semantic_similarity, target_lang, lang_probs,
                               metric_results, detect_calls, model_name, history,
                               database, connection, requests, handlers, fetched>>
           ELSE Position(t, "model")

\* `if self._model is None:`
ModelTest ==
    \E t \in DOMAIN pc :
        /\ pc[t] = "model"
        /\ Position(t, IF model_is_unloaded(_model) THEN "load" ELSE "return")
        /\ UNCHANGED <<_model, constructed, used, local, started>>

\* `SentenceTransformer(self.model_name)` returns a new object
ModelLoad ==
    \E t \in DOMAIN pc :
        /\ pc[t] = "load"
        /\ constructed' = Append(constructed, [model_name |-> model_name, ok |-> TRUE])
        /\ local' = [local EXCEPT ![t].model = ToString(Len(constructed) + 1)]
        /\ Position(t, "store")
        /\ UNCHANGED <<_model, used, started>>

\* `SentenceTransformer(self.model_name)` raises, and evaluate catches it
ModelLoadFails ==
    \E t \in DOMAIN pc :
        /\ pc[t] = "load"
        /\ constructed' = Append(constructed, [model_name |-> model_name, ok |-> FALSE])
        /\ Finish(t, Raise("model unavailable"))
        /\ UNCHANGED <<_model, used, local, started>>

\* `self._model = ...`
ModelStore ==
    \E t \in DOMAIN pc :
        /\ pc[t] = "store"
        /\ _model' = local[t].model
        /\ Position(t, "return")
        /\ UNCHANGED <<constructed, used, local, started>>

\* `return self._model`
ModelReturn ==
    \E t \in DOMAIN pc :
        /\ pc[t] = "return"
        /\ local' = [local EXCEPT ![t].model = _model]
        /\ Position(t, "encode")
        /\ UNCHANGED <<_model, constructed, used, started>>

\* `.encode([source_text, target_text])` and the rest of evaluate
ModelEncode ==
    \E t \in DOMAIN pc : \E e \in ModelEncodeAnswers :
        /\ pc[t] = "encode"
        /\ used' = Append(used, local[t].model)
        /\ Finish(t, e)
        /\ UNCHANGED <<_model, constructed, local, started>>

NextModel ==
    \/ ModelEvaluate
    \/ ModelTest
    \/ ModelLoad
    \/ ModelLoadFails
    \/ ModelStore
    \/ ModelReturn
    \/ ModelEncode

\* one caller, one call after the other
InitSequential == Constructed(1)
SpecSequential == InitSequential /\ [][NextModel]_vars

\* several threads calling the same instance
InitConcurrent == Constructed(MaxThreads)
SpecConcurrent == InitConcurrent /\ [][NextModel]_vars

(***************************************************************************)
(* The five metric instances of one process called again and again by one  *)
(* caller, each call recorded in history with its arguments, the answers   *)
(* of the detector or the backend, and whether the embedding model was     *)
(* loaded when it began.  No evaluate assigns a field of its instance but  *)
(* SemanticSimilarityMetric's, which sets _model.                          *)
(***************************************************************************)
Backends == [construct : BOOLEAN, encode : ModelEncodeAnswers]

Repeated(name, source, target, lang, detector, backend, calls, r) ==
    /\ started < MaxRepeats
    /\ started' = started + 1
    /\ op' = name
    /\ source_text' = source
    /\ target_text' = target
    /\ target_lang' = lang
    /\ lang_probs' = detector
    /\ detect_calls' = calls
    /\ ret' = r
    /\ history' = Append(history,
                         [op |-> name, source |-> source, target |-> target, lang |-> lang,
                          detector |-> detector, backend |-> backend,
                          loaded |-> _model # None, outcome |-> r])
    /\ UNCHANGED <<config, semantic_similarity, metric_results, model_name, used, pc, local>>
    /\ UNCHANGED route_vars

RepeatedLanguageDetection ==
    \E a \in {Return(<<[lang |-> "es", prob |-> Z(1)]>>),
               Return(<<[lang |-> "fr", prob |-> Z(1)]>>)} :
        \E r \in {LanguageDetection_run(<<"a">>, "es", a)} :
            /\ Repeated("LanguageDetectionMetric.evaluate", <<>>, <<"a">>, "es", a,
                        NoEmbedding, r.calls, r.out)
            /\ UNCHANGED <<_model, constructed, embeddings>>

RepeatedLengthRatio ==
    \E t \in {<<"a">>, <<"a", "a", "a">>} :
        /\ Repeated("LengthRatioMetric.evaluate", <<"a">>, t, "", Return(<<>>),
                    NoEmbedding, 0, LengthRatio_evaluate(<<"a">>, t))
        /\ UNCHANGED <<_model, constructed, embeddings>>

RepeatedRepetition ==
    \E t \in {<<"a", " ", "b">>, <<"a", " ", "a", " ", "a">>} :
        /\ Repeated("RepetitionMetric.evaluate", <<>>, t, "", Return(<<>>),
                    NoEmbedding, 0, Repetition_evaluate(<<>>, t))
        /\ UNCHANGED <<_model, constructed, embeddings>>

RepeatedPreservation ==
    \E t \in {<<"1">>, <<"2">>} :
        /\ Repeated("PreservationMetric.evaluate", <<"1">>, t, "", Return(<<>>),
                    NoEmbedding, 0, Preservation_evaluate(<<"1">>, t))
        /\ UNCHANGED <<_model, constructed, embeddings>>

RepeatedSemantic ==
    \E s \in {<<>>, <<"a">>}, b \in Backends :
        \* an empty text reaches neither the constructor nor encode
        /\ IsEmpty(s) => b = [construct |-> TRUE, encode |-> Raise("encoding failed")]
        /\ \E r \in {Semantic_call(_model, s, <<"a">>, b)} :
               /\ Repeated("SemanticSimilarityMetric.evaluate", s, <<"a">>, "", Return(<<>>),
                           b, 0, r.out)
               /\ _model' = r.model
               /\ constructed' = constructed \o r.built
               /\ embeddings' = b.encode

InitRepeated == Constructed(0)
NextRepeated ==
    \/ RepeatedLanguageDetection
    \/ RepeatedLengthRatio
    \/ RepeatedRepetition
    \/ RepeatedPreservation
    \/ RepeatedSemantic
SpecRepeated == InitRepeated /\ [][NextRepeated]_vars

InitFusion == Loaded(FusionConfigs)
NextFusion == FuseScores
SpecFusion == InitFusion /\ [][NextFusion]_vars

(***************************************************************************)
(* The routes.  run_translation stores a run, asks every provider it could *)
(* create for a translation, stores and evaluates each answer and commits; *)
(* get_run rebuilds a response from the stored rows.  A handler is cut     *)
(* into steps where it awaits, so that handlers of overlapping requests    *)
(* interleave.  The engine is built with StaticPool: every session works   *)
(* on the one connection, so flushed rows of all sessions wait in the same *)
(* transaction, and a commit or a rollback settles all of them.            *)
(***************************************************************************)
MaxProviders == 2
MaxRequests == 2
MaxResults == 4

\* `not x` of an `str | None`
IsFalsy(x) == x = None \/ x = ""

\* a str that is not built from parts
Literal(s) == [literal |-> s]

RequestText == <<"a">>
RequestLang == "es"
\* what detect_langs answers for the outputs of the providers
RouteDetector == Return(<<[lang |-> "es", prob |-> Z(1)]>>)

\* translate_with_timing keeping the message out of the result
translate_with_timing_anonymous(name, answer) ==
    IF Raised(answer)
    THEN [provider_name |-> name, model_id |-> "model", output_text |-> <<>>,
          error |-> "Translation failed"]
    ELSE [provider_name |-> name, model_id |-> "model", output_text |-> answer.value,
          error |-> None]

\* TranslatorProvider.translate_with_timing, answer being what translate
\* returns or raises
translate_with_timing(name, answer) ==
    IF Raised(answer)
    THEN [provider_name |-> name, model_id |-> "model", output_text |-> <<>>,
          error |-> answer.raised]
    ELSE [provider_name |-> name, model_id |-> "model", output_text |-> answer.value,
          error |-> None]

\* summary_before with the lower score first
summary_before_ascending(results, i, j) ==
    LET ki == results[i].evaluation.score_breakdown.overall_score
        kj == results[j].evaluation.score_breakdown.overall_score
    IN  RLt(ki, kj) \/ (ki = kj /\ i < j)

\* sorted(results, key=overall_score, reverse=True): a stable sort;
\* position i goes before position j
summary_before(results, i, j) ==
    LET ki == results[i].evaluation.score_breakdown.overall_score
        kj == results[j].evaluation.score_breakdown.overall_score
    IN  RLt(kj, ki) \/ (ki = kj /\ i < j)

sorted_results(results) ==
    [r \in 1..Len(results) |->
        results[CHOOSE i \in 1..Len(results) :
                  Cardinality({j \in 1..Len(results) : summary_before(results, j, i)})
                  = r - 1]]

\* _generate_summary
generate_summary(results) ==
    LET sorted == sorted_results(results)
        rankings == [idx \in 1..Len(sorted) |->
                        [rank |-> idx,
                         provider |-> sorted[idx].translation.provider_name,
                         model |-> sorted[idx].translation.model_id,
                         score |-> sorted[idx].evaluation.score_breakdown.overall_score]]
    IN  [total_providers |-> Len(results), rankings |-> rankings,
         best_provider |-> IF rankings # <<>> THEN rankings[1].provider ELSE None,
         best_score |-> IF rankings # <<>> THEN rankings[1].score ELSE None]

\* the rows a session sees: the committed ones and those flushed on the
\* connection
Visible(t) == database[t] \o connection[t]
\* the autoincremented key of the next row of a table
NextId(t) == Len(Visible(t)) + 1

\* the create_evaluation calls of run_translation for one evaluated
\* translation: a row per metric of the breakdown, then the overall_score row
evaluation_rows(r, translation_id, breakdown) ==
    [k \in 1..(Len(breakdown.metrics) + 1) |->
        IF k <= Len(breakdown.metrics)
        THEN [id |-> NextId("evaluations") + k - 1, request |-> r,
              translation_id |-> translation_id,
              metric_name |-> breakdown.metrics[k].name,
              metric_value |-> breakdown.metrics[k].value,
              details |-> breakdown.metrics[k].details]
        ELSE [id |-> NextId("evaluations") + k - 1, request |-> r,
              translation_id |-> translation_id,
              metric_name |-> "overall_score",
              metric_value |-> breakdown.overall_score,
              details |-> [explanation |-> breakdown.explanation,
                           warnings |-> breakdown.warnings]]]

\* the dummy evaluation of run_translation for a failed translation
dummy_eval(translation_id, translation_result) ==
    [translation_id |-> translation_id,
     provider_name |-> translation_result.provider_name,
     model_id |-> translation_result.model_id,
     score_breakdown |->
        [overall_score |-> Z(0), metrics |-> <<>>,
         warnings |-> <<<<IF IsFalsy(translation_result.error)
                          THEN "Translation failed"
                          ELSE translation_result.error>>>>,
         explanation |-> Literal("Translation failed")]]

\* get_run's rebuilt MetricResult keeping a weight of one
rebuilt_metric_weighted(evaluation) ==
    [name |-> evaluation.metric_name, value |-> evaluation.metric_value,
     weight |-> Z(1), details |-> evaluation.details]

\* the MetricResult get_run builds from a metric row
rebuilt_metric(evaluation) ==
    [name |-> evaluation.metric_name, value |-> evaluation.metric_value,
     weight |-> Z(0), details |-> evaluation.details]

\* the loop of get_run over translation.evaluations
rebuilt_breakdown(evaluations) ==
    LET overall == SelectSeq(evaluations, LAMBDA e : e.metric_name = "overall_score")
        others == SelectSeq(evaluations, LAMBDA e : e.metric_name # "overall_score")
    IN  [overall_score |-> IF overall # <<>> THEN overall[Len(overall)].metric_value
                           ELSE Z(0),
         metrics |-> [k \in 1..Len(others) |-> rebuilt_metric(others[k])],
         warnings |-> IF overall # <<>> THEN overall[Len(overall)].details.warnings
                      ELSE <<>>,
         explanation |-> IF overall # <<>> THEN overall[Len(overall)].details.explanation
                         ELSE Literal(None)]

\* get_run
get_run(run_id) ==
    LET found == SelectSeq(Visible("runs"), LAMBDA run : run.id = run_id)
        translations == SelectSeq(Visible("translations"), LAMBDA t : t.run_id = run_id)
        results_with_eval ==
            [k \in 1..Len(translations) |->
                [translation |->
                    [provider_name |-> translations[k].provider,
                     model_id |-> translations[k].model,
                     output_text |-> translations[k].output_text,
                     error |-> translations[k].error],
                 evaluation |->
                    [translation_id |-> translations[k].id,
                     provider_name |-> translations[k].provider,
                     model_id |-> translations[k].model,
                     score_breakdown |->
                        rebuilt_breakdown(
                            SelectSeq(Visible("evaluations"),
                                      LAMBDA e : e.translation_id = translations[k].id))]]]
    IN  IF found = <<>>
        THEN Raise("404 Run not found")
        ELSE Return([run_id |-> run_id, results |-> results_with_eval,
                     summary |-> generate_summary(results_with_eval)])

(***************************************************************************)
(* Requests.  A request names its providers; for each the model draws      *)
(* whether ProviderFactory can create it and what its translate answers,   *)
(* and for the request which write to the database fails, if any.          *)
(***************************************************************************)
TranslateAnswers == {Return(<<"a">>), Return(<<"a", "a", "a">>), Raise("boom"), Raise("")}
ProviderPlans ==
    {[create |-> TRUE, answer |-> a] : a \in TranslateAnswers}
    \cup {[create |-> FALSE, answer |-> Raise("not created")]}
StorageFaults == {0, 1, 2, 3}
RouteBodies ==
    {[providers |-> ps, storage |-> f] :
        ps \in UNION {[1..k -> ProviderPlans] : k \in 1..MaxProviders},
        f \in StorageFaults}
\* the requests that are made to overlap
OverlappingBodies ==
    {[providers |-> <<p>>, storage |-> 0] : p \in ProviderPlans}
RouteConfigs ==
    {MkConfig(AllOn, AllOne, Band(b), NoToggles, Sem(FALSE, Z(0))) :
        b \in {<<Q(1, 2), Z(2)>>, <<Q(1, 2), Z(1)>>}}
    \cup {MkConfig(AllOn, [AllOne EXCEPT !["repetition"] = Z(0)], DefaultBand, NoToggles,
                   Sem(FALSE, Z(0)))}

\* the application is started and n requests are about to be handled
Requested(n, bodies) ==
    /\ Started(RouteConfigs)
    /\ database = EmptyTables
    /\ connection = EmptyTables
    /\ requests \in [1..n -> bodies]
    /\ handlers = [r \in 1..n |->
                      [pc |-> "start", run_id |-> 0, translation_results |-> <<>>,
                       results_with_eval |-> <<>>, evaluated |-> <<>>, writes |-> 0,
                       response |-> Return(<<>>)]]
    /\ fetched = Return(<<>>)

evaluator_vars == <<config, semantic_similarity, source_text, target_text, target_lang,
                    lang_probs, embeddings, metric_results, op, detect_calls, ret,
                    model_name, _model, constructed, used, pc, local, started, history>>

\* the handler raises: get_session rolls back what waits on the connection
Abort(r, exc) ==
    /\ connection' = EmptyTables
    /\ handlers' = [handlers EXCEPT ![r].pc = "failed", ![r].response = exc]
    /\ UNCHANGED <<database, requests, fetched>>

\* whether one of the writes first..last of the request fails
Faulty(r, first, last) == requests[r].storage \in first..last

\* repo.create_run
RunCreate ==
    \E r \in DOMAIN handlers :
        /\ handlers[r].pc = "start"
        /\ UNCHANGED evaluator_vars
        /\ IF Faulty(r, 1, 1)
           THEN Abort(r, Raise("database error"))
           ELSE /\ connection' =
                       [connection EXCEPT !.runs =
                           Append(@, [id |-> NextId("runs"), request |-> r])]
                /\ handlers' = [handlers EXCEPT ![r].pc = "translate",
                                                ![r].run_id = NextId("runs"),
                                                ![r].writes = 1]
                /\ UNCHANGED <<database, requests, fetched>>

\* the providers are created and asked, asyncio.gather collecting their
\* results in the order of the providers
RunTranslate ==
    \E r \in DOMAIN handlers :
        /\ handlers[r].pc = "translate"
        /\ UNCHANGED evaluator_vars
        /\ LET named == [i \in 1..Len(requests[r].providers) |->
                            [name |-> ToString(i), plan |-> requests[r].providers[i]]]
               providers == SelectSeq(named, LAMBDA p : p.plan.create)
           IN  IF providers = <<>>
               THEN Abort(r, Raise("400 No valid providers configured"))
               ELSE /\ handlers' =
                           [handlers EXCEPT
                               ![r].pc = "store",
                               ![r].translation_results =
                                   [i \in 1..Len(providers) |->
                                       translate_with_timing(providers[i].name,
                                                             providers[i].plan.answer)]]
                    /\ UNCHANGED <<database, connection, requests, fetched>>

\* one round of the loop over translation_results: the translation is
\* stored, then evaluated and its evaluation stored unless it has an error
RunStore ==
    \E r \in DOMAIN handlers :
        /\ handlers[r].pc = "store"
        /\ UNCHANGED evaluator_vars
        /\ LET h == handlers[r]
               i == Len(h.results_with_eval) + 1
               translation_result == h.translation_results[i]
               translation_id == NextId("translations")
               translation == [id |-> translation_id, request |-> r, run_id |-> h.run_id,
                               provider |-> translation_result.provider_name,
                               model |-> translation_result.model_id,
                               output_text |-> translation_result.output_text,
                               error |-> translation_result.error]
               after == IF i = Len(h.translation_results) THEN "commit" ELSE "store"
           IN  IF Faulty(r, h.writes + 1, h.writes + 1)
               THEN Abort(r, Raise("database error"))
               ELSE IF ~IsFalsy(translation_result.error)
               THEN /\ connection' = [connection EXCEPT !.translations =
                                         Append(@, translation)]
                    /\ handlers' =
                           [handlers EXCEPT
                               ![r].pc = after,
                               ![r].writes = h.writes + 1,
                               ![r].results_with_eval =
                                   Append(@, [translation |-> translation_result,
                                              evaluation |->
                                                  dummy_eval(translation_id,
                                                             translation_result)])]
                    /\ UNCHANGED <<database, requests, fetched>>
               ELSE \E ev \in {evaluate_translation(RequestText,
                                                    translation_result.output_text,
                                                    RequestLang, RouteDetector,
                                                    NoEmbedding).ret} :
                        IF Raised(ev)
                        THEN Abort(r, ev)
                        ELSE \E rows \in {evaluation_rows(r, translation_id,
                                                          ev.value.score_breakdown)} :
                            IF Faulty(r, h.writes + 2, h.writes + 1 + Len(rows))
                            THEN Abort(r, Raise("database error"))
                            ELSE /\ connection' =
                                        [connection EXCEPT
                                            !.translations = Append(@, translation),
                                            !.evaluations = @ \o rows]
                                 /\ handlers' =
                                        [handlers EXCEPT
                                            ![r].pc = after,
                                            ![r].writes = h.writes + 1 + Len(rows),
                                            ![r].evaluated = Append(@, i),
                                            ![r].results_with_eval =
                                                Append(@,
                                                    [translation |-> translation_result,
                                                     evaluation |->
                                                         [ev.value EXCEPT
                                                             !.translation_id =
                                                                 translation_id,
                                                             !.provider_name =
                                                                 translation_result.provider_name,
                                                             !.model_id =
                                                                 translation_result.model_id]])]
                                 /\ UNCHANGED <<database, requests, fetched>>

\* repo.commit(), then the response with its summary
RunCommit ==
    \E r \in DOMAIN handlers :
        /\ handlers[r].pc = "commit"
        /\ UNCHANGED evaluator_vars
        /\ database' = [t \in DOMAIN database |-> database[t] \o connection[t]]
        /\ connection' = EmptyTables
        /\ handlers' =
               [handlers EXCEPT
                   ![r].pc = "done",
                   ![r].response =
                       Return([run_id |-> handlers[r].run_id,
                               results |-> handlers[r].results_with_eval,
                               summary |->
                                   generate_summary(handlers[r].results_with_eval)])]
        /\ UNCHANGED <<requests, fetched>>

\* a get_run request, made while no run_translation request is in progress
GetRun ==
    /\ \A r \in DOMAIN handlers : handlers[r].pc \in {"start", "done", "failed"}
    /\ \E run_id \in 1..2 :
           fetched' = [run_id |-> run_id, answer |-> get_run(run_id)]
    /\ UNCHANGED evaluator_vars
    /\ UNCHANGED <<database, connection, requests, handlers>>

\* one request after the other
InitRoutes == Requested(1, RouteBodies)
NextRoutes ==
    \/ RunCreate
    \/ RunTranslate
    \/ RunStore
    \/ RunCommit
    \/ GetRun
SpecRoutes == InitRoutes /\ [][NextRoutes]_vars

\* requests whose handlers overlap
InitOverlapping == Requested(MaxRequests, OverlappingBodies)
NextOverlapping ==
    \/ RunCreate
    \/ RunTranslate
    \/ RunStore
    \/ RunCommit
SpecOverlapping == InitOverlapping /\ [][NextOverlapping]_vars

\* _generate_summary called on results of any scores
SummaryScores == {Z(0), Z(50), Z(100)}
SummaryResults ==
    UNION {{[i \in 1..k |->
                [translation |-> [provider_name |-> ToString(i), model_id |-> "model",
                                  output_text |-> <<"a">>, error |-> None],
                 evaluation |-> [translation_id |-> i, provider_name |-> ToString(i),
                                 model_id |-> "model",
                                 score_breakdown |->
                                     [overall_score |-> sc[i], metrics |-> <<>>,
                                      warnings |-> <<>>,
                                      explanation |-> Literal(None)]]]] :
               sc \in [1..k -> SummaryScores]} : k \in 0..MaxResults}

GenerateSummary ==
    /\ \E results \in SummaryResults :
           fetched' = [results |-> results, summary |-> generate_summary(results)]
    /\ UNCHANGED evaluator_vars
    /\ UNCHANGED <<database, connection, requests, handlers>>

InitSummary == Requested(0, RouteBodies)
NextSummary == GenerateSummary
SpecSummary == InitSummary /\ [][NextSummary]_vars

(***************************************************************************)
(* What the claims speak of, read off the configuration file and the       *)
(* call's arguments without going through the code that is modelled.       *)
(***************************************************************************)
OpFuse == "ScoreFusion.fuse_scores"
OpEvaluate == "Evaluator.evaluate_translation"
OpLanguage == "LanguageDetectionMetric.evaluate"
OpLength == "LengthRatioMetric.evaluate"
OpRepetition == "RepetitionMetric.evaluate"
OpPreservation == "PreservationMetric.evaluate"
OpSemantic == "SemanticSimilarityMetric.evaluate"
MetricOps == {OpLanguage, OpLength, OpRepetition, OpPreservation, OpSemantic}

Leaf(path, default) == IF path \in DOMAIN config THEN config[path] ELSE default

\* the weight the configuration file gives a metric name
ResolvedWeight(name) ==
    IF name \in Heuristics THEN Leaf(<<"metrics", "heuristics", name, "weight">>, Z(0))
    ELSE IF name = "semantic_similarity" THEN Leaf(<<"metrics", "semantic", "weight">>, Z(0))
    ELSE Z(0)

\* the enabled flag the configuration file gives a metric name
ConfiguredEnabled(name) ==
    IF name \in Heuristics THEN Leaf(<<"metrics", "heuristics", name, "enabled">>, FALSE)
    ELSE IF name = "semantic_similarity" THEN Leaf(<<"metrics", "semantic", "enabled">>, FALSE)
    ELSE FALSE

AllMetrics == Heuristics \cup {"semantic_similarity"}

Names(pairs) == {pairs[i][1] : i \in 1..Len(pairs)}
MetricNames(breakdown) == {breakdown.metrics[i].name : i \in 1..Len(breakdown.metrics)}
\* the metrics whose warning the breakdown carries: a warning starts with the name
WarningNames(breakdown) == {breakdown.warnings[i][1] : i \in 1..Len(breakdown.warnings)}
InRange(x) == RLe(Z(0), x) /\ RLe(x, Z(100))

(***************************************************************************)
(* C1: fuse_scores returns overall_score = sum(score * weight) /           *)
(* sum(weight) over exactly the metrics of the mapping whose resolved      *)
(* weight is > 0, and 0 when no metric has positive weight.                *)
(***************************************************************************)
PositiveItems == SelectSeq(metric_results, LAMBDA item : RLt(Z(0), ResolvedWeight(item[1])))
WeightedSum(items) ==
    RSum([i \in 1..Len(items) |-> RMul(items[i][2].score, ResolvedWeight(items[i][1]))])
WeightSum(items) == RSum([i \in 1..Len(items) |-> ResolvedWeight(items[i][1])])

C1_WeightedMean ==
    op = OpFuse =>
        ret.value.overall_score =
            IF PositiveItems = <<>> THEN Z(0)
            ELSE RDiv(WeightedSum(PositiveItems), WeightSum(PositiveItems))

\* scores 80 and 50 with weights 2 and 1 give 70
C1_Witness ==
    /\ op = OpFuse
    /\ Len(metric_results) = 2
    /\ metric_results[1][2].score = Z(80) /\ ResolvedWeight(metric_results[1][1]) = Z(2)
    /\ metric_results[2][2].score = Z(50) /\ ResolvedWeight(metric_results[2][1]) = Z(1)
    /\ ret.value.overall_score = Z(70)

(***************************************************************************)
(* C2: a metric of the mapping whose resolved weight is 0 (no weight path, *)
(* or the weight key missing) is not in the breakdown's metrics and its    *)
(* warning is not in the breakdown's warnings; every MetricResult of the   *)
(* breakdown has weight > 0.                                               *)
(***************************************************************************)
C2_ZeroWeightDropped ==
    op = OpFuse =>
        /\ \A i \in 1..Len(ret.value.metrics) : RLt(Z(0), ret.value.metrics[i].weight)
        /\ \A i \in 1..Len(metric_results) :
              ResolvedWeight(metric_results[i][1]) = Z(0) =>
                  /\ metric_results[i][1] \notin MetricNames(ret.value)
                  /\ metric_results[i][1] \notin WarningNames(ret.value)

\* a metric without weight path and a metric whose weight key is missing,
\* both with a warning, beside nothing else
C2_Witness ==
    /\ op = OpFuse
    /\ Len(metric_results) = 2
    /\ metric_results[1][1] = "bleu"
    /\ metric_results[1][2].warning # NoWarning
    /\ metric_results[2][1] = "language_detection"
    /\ <<"metrics", "heuristics", "language_detection", "weight">> \notin DOMAIN config
    /\ metric_results[2][2].warning # NoWarning
    /\ ret.value.metrics = <<>>
    /\ ret.value.warnings = <<>>

(***************************************************************************)
(* C3: the score each of the five metrics returns lies in [0, 100], and so *)
(* do the values and the overall_score of the breakdown fused from them.   *)
(***************************************************************************)
C3_ScoresInRange ==
    /\ (op \in MetricOps /\ ~Raised(ret)) => InRange(ret.value.score)
    /\ (op = OpEvaluate /\ ~Raised(ret)) =>
          /\ InRange(ret.value.score_breakdown.overall_score)
          /\ \A i \in 1..Len(metric_results) : InRange(metric_results[i][2].score)

(***************************************************************************)
(* C4: evaluate_translation is total: whatever the configuration, the      *)
(* texts and the detector's answer, it returns an EvaluationResult and no  *)
(* exception of a metric reaches its caller.                               *)
(***************************************************************************)
C4_Total == op = OpEvaluate => ~Raised(ret)

(***************************************************************************)
(* C5: a metric whose enabled flag is false is not invoked and has neither *)
(* a MetricResult nor a warning in the breakdown, whatever its weight; a   *)
(* metric is in the breakdown only if it is enabled and its weight is > 0. *)
(***************************************************************************)
C5_DisabledContributeNothing ==
    op = OpEvaluate =>
        /\ \A m \in AllMetrics :
              ~ConfiguredEnabled(m) =>
                  /\ m \notin Names(metric_results)
                  /\ ~Raised(ret) =>
                        /\ m \notin MetricNames(ret.value.score_breakdown)
                        /\ m \notin WarningNames(ret.value.score_breakdown)
        /\ ~ConfiguredEnabled("language_detection") => detect_calls = 0
        /\ ret.raised = "ZeroDivisionError" => ConfiguredEnabled("length_ratio")
        /\ ~Raised(ret) =>
              \A m \in MetricNames(ret.value.score_breakdown) :
                  ConfiguredEnabled(m) /\ RLt(Z(0), ResolvedWeight(m))

\* a disabled metric of positive weight beside an enabled one that is kept
C5_Witness ==
    /\ op = OpEvaluate
    /\ ~Raised(ret)
    /\ \E m \in Heuristics : ~ConfiguredEnabled(m) /\ RLt(Z(0), ResolvedWeight(m))
    /\ ret.value.score_breakdown.metrics # <<>>
    /\ ~IsBlank(target_text)

(***************************************************************************)
(* C6: with metrics.semantic.enabled = true and a category weight > 0, the *)
(* Evaluator constructs the SemanticSimilarity metric, invokes it on every *)
(* evaluate_translation call, and the breakdown holds a MetricResult named *)
(* semantic_similarity.                                                    *)
(***************************************************************************)
C6_SemanticRuns ==
    (/\ Leaf(<<"metrics", "semantic", "enabled">>, FALSE)
     /\ RLt(Z(0), Leaf(<<"metrics", "semantic", "weight">>, Z(0)))) =>
        /\ semantic_similarity # None
        /\ (op = OpEvaluate /\ ~Raised(ret)) =>
              /\ "semantic_similarity" \in Names(metric_results)
              /\ "semantic_similarity" \in MetricNames(ret.value.score_breakdown)

(***************************************************************************)
(* C7: when every metric is disabled, evaluate_translation still returns a *)
(* result, with overall_score 0 and empty metrics and warnings.            *)
(***************************************************************************)
AllDisabled == \A m \in AllMetrics : ~ConfiguredEnabled(m)

C7_AllDisabled ==
    (op = OpEvaluate /\ AllDisabled) =>
        /\ ~Raised(ret)
        /\ ret.value.score_breakdown.overall_score = Z(0)
        /\ ret.value.score_breakdown.metrics = <<>>
        /\ ret.value.score_breakdown.warnings = <<>>

\* every metric disabled, with positive weights and texts a metric would score
C7_Witness ==
    /\ op = OpEvaluate
    /\ AllDisabled
    /\ \A m \in Heuristics : RLt(Z(0), ResolvedWeight(m))
    /\ ~IsBlank(source_text) /\ ~IsBlank(target_text)
    /\ ~Raised(ret)

(***************************************************************************)
(* C8: LanguageMatch on a non-blank target and a non-empty ranking with    *)
(* top pair (lang, confidence): lang = target_lang gives score 100 when    *)
(* confidence >= 0.8 and confidence * 100 otherwise, with the              *)
(* low-confidence warning exactly when confidence < 0.8; lang # target_lang*)
(* gives score 0, matches_target false and a warning naming the expected   *)
(* and the detected language.                                              *)
(***************************************************************************)
C8_LanguageMatch ==
    (/\ op = OpLanguage
     /\ ~IsBlank(target_text)
     /\ ~Raised(lang_probs)
     /\ lang_probs.value # <<>>) =>
        LET top == lang_probs.value[1]
        IN  /\ ~Raised(ret)
            /\ IF top.lang = target_lang
               THEN /\ ret.value.matches_target = "True"
                    /\ ret.value.score = IF RLe(Q(4, 5), top.prob) THEN Z(100)
                                         ELSE RMul(top.prob, Z(100))
                    /\ ret.value.warning = IF RLt(top.prob, Q(4, 5))
                                           THEN <<WARN_LOW_CONFIDENCE>>
                                           ELSE NoWarning
               ELSE /\ ret.value.score = Z(0)
                    /\ ret.value.matches_target = "False"
                    /\ target_lang \in Range(ret.value.warning)
                    /\ top.lang \in Range(ret.value.warning)

\* the expected language detected with a confidence at the threshold
C8_Witness ==
    /\ op = OpLanguage
    /\ ~IsBlank(target_text)
    /\ ~Raised(lang_probs)
    /\ lang_probs.value # <<>>
    /\ lang_probs.value[1].lang = target_lang
    /\ lang_probs.value[1].prob = Q(4, 5)
    /\ ret.value.score = Z(100)

(***************************************************************************)
(* C9: LanguageMatch never raises: an empty or blank target gives score 0  *)
(* and "Empty translation" without a call of the detector, an empty        *)
(* ranking gives score 0 and "Could not detect language", a detector       *)
(* failure gives score 50 and a warning naming the failure.                *)
(***************************************************************************)
C9_LanguageNeverRaises ==
    op = OpLanguage =>
        /\ ~Raised(ret)
        /\ IsBlank(target_text) =>
              /\ ret.value.score = Z(0)
              /\ ret.value.warning = <<"Empty translation">>
              /\ detect_calls = 0
        /\ (~IsBlank(target_text) /\ ~Raised(lang_probs) /\ lang_probs.value = <<>>) =>
              /\ ret.value.score = Z(0)
              /\ ret.value.warning = <<"Could not detect language">>
        /\ (~IsBlank(target_text) /\ Raised(lang_probs)) =>
              /\ ret.value.score = Z(50)
              /\ LangDetectMessage \in Range(ret.value.warning)

\* a whitespace-only target that never reaches the detector
C9_Witness ==
    /\ op = OpLanguage
    /\ target_text # <<>>
    /\ IsBlank(target_text)
    /\ Raised(lang_probs)
    /\ detect_calls = 0
    /\ ret.value.score = Z(0)

(***************************************************************************)
(* C10: LengthRatio's score is the piecewise reference for every pair of   *)
(* lengths: 0 and "Empty source text" for an empty source (also with an    *)
(* empty target), 0 and "Empty translation" for an empty target; inside    *)
(* [min_ratio, max_ratio] max(50, (ratio - min)/(1 - min) * 100) below 1   *)
(* and max(50, (max - ratio)/(max - 1) * 100) from 1 on, so 100 at ratio   *)
(* 1; outside, ratio/min * 50 or max/ratio * 50 clamped to [0, 50].        *)
(***************************************************************************)
RefMin == Leaf(<<"metrics", "heuristics", "length_ratio", "min_ratio">>, Q(1, 2))
RefMax == Leaf(<<"metrics", "heuristics", "length_ratio", "max_ratio">>, Z(2))
RefRatio == Q(Len(target_text), Len(source_text))
RefInBand == RLe(RefMin, RefRatio) /\ RLe(RefRatio, RefMax)
RefLengthScore ==
    IF RefInBand
    THEN IF RefRatio = Z(1) THEN Z(100)
         ELSE IF RLt(RefRatio, Z(1))
         THEN RMax(Z(50), RMul(RDiv(RSub(RefRatio, RefMin), RSub(Z(1), RefMin)), Z(100)))
         ELSE RMax(Z(50), RMul(RDiv(RSub(RefMax, RefRatio), RSub(RefMax, Z(1))), Z(100)))
    ELSE IF RLt(RefRatio, RefMin)
         THEN RMax(Z(0), RMin(Z(50), RMul(RDiv(RefRatio, RefMin), Z(50))))
         ELSE RMax(Z(0), RMin(Z(50), RMul(RDiv(RefMax, RefRatio), Z(50))))

C10_LengthPiecewise ==
    op = OpLength =>
        /\ ~Raised(ret)
        /\ IF Len(source_text) = 0
           THEN ret.value.score = Z(0) /\ ret.value.warning = <<"Empty source text">>
           ELSE IF Len(target_text) = 0
           THEN ret.value.score = Z(0) /\ ret.value.warning = <<"Empty translation">>
           ELSE ret.value.score = RefLengthScore

(***************************************************************************)
(* C11: LengthRatio on a non-empty source and target warns if and only if  *)
(* the ratio is strictly outside [min_ratio, max_ratio]; then the score is *)
(* < 50 and the warning says "too short" below min_ratio and "too long"    *)
(* above max_ratio; otherwise there is no warning and the score is >= 50.  *)
(***************************************************************************)
RefTooShort == RLt(RefRatio, RefMin)
RefTooLong == ~RefTooShort /\ RLt(RefMax, RefRatio)

C11_LengthWarning ==
    (op = OpLength /\ Len(source_text) > 0 /\ Len(target_text) > 0) =>
        /\ ~Raised(ret)
        /\ (ret.value.warning # NoWarning) <=> (RefTooShort \/ RefTooLong)
        /\ RefTooShort =>
              /\ RLt(ret.value.score, Z(50))
              /\ ret.value.warning[2] = ": translation too short (ratio: "
        /\ RefTooLong =>
              /\ RLt(ret.value.score, Z(50))
              /\ ret.value.warning[2] = ": translation too long (ratio: "
        /\ ~(RefTooShort \/ RefTooLong) => RLe(Z(50), ret.value.score)

(***************************************************************************)
(* C12: for each n-gram size with at least one n-gram, Repetition's value  *)
(* for the size is max(1 - unique/total, min(max_frequency/total, 1)) when *)
(* some n-gram occurs more than once, and 1 - unique/total = 0 when the    *)
(* n-grams are all distinct.                                               *)
(***************************************************************************)
RefTokens == split(lower(target_text))
RefUnique(grams) == Cardinality(Range(grams))
RefMaxFrequency(grams) ==
    Let({Cardinality({j \in 1..Len(grams) : grams[j] = grams[i]}) : i \in 1..Len(grams)},
        LAMBDA freqs : CHOOSE f \in freqs : \A g \in freqs : g <= f)
\* the value as the specification words it
RefRepetitionAlways(grams) ==
    RMax(RSub(Z(1), Q(RefUnique(grams), Len(grams))),
         RMin(Q(RefMaxFrequency(grams), Len(grams)), Z(1)))
RefRepetition(grams) ==
    IF RefMaxFrequency(grams) > 1 THEN RefRepetitionAlways(grams)
    ELSE RSub(Z(1), Q(RefUnique(grams), Len(grams)))
\* the n-grams of the target for each size that has one
RefGrams ==
    Let(RefTokens, LAMBDA tokens :
        [n \in {m \in 2..MAX_NGRAM_SIZE : Len(tokens) >= m} |->
            [i \in 1..(Len(tokens) - n + 1) |-> SubSeq(tokens, i, i + n - 1)]])

C12_PerSizeRepetition ==
    (op = OpRepetition /\ ~IsBlank(target_text)) =>
        /\ ~Raised(ret)
        /\ \A grams \in {RefGrams} :
              /\ Names(ret.value.ngram_scores) = DOMAIN grams
              /\ \A i \in 1..Len(ret.value.ngram_scores) :
                    \A g \in {grams[ret.value.ngram_scores[i][1]]} :
                        /\ ret.value.ngram_scores[i][2] = RefRepetition(g)
                        /\ RefMaxFrequency(g) = 1 => ret.value.ngram_scores[i][2] = Z(0)

\* one target with a repeated 2-gram and 3-grams that are all distinct
C12_Witness ==
    /\ op = OpRepetition
    /\ ~IsBlank(target_text)
    /\ Len(ret.value.ngram_scores) = 2
    /\ RefMaxFrequency(RefGrams[2]) = 2
    /\ RefMaxFrequency(RefGrams[3]) = 1
    /\ ret.value.ngram_scores[1] = <<2, Z(1)>>
    /\ ret.value.ngram_scores[2] = <<3, Z(0)>>

\* C12 as stated: the frequency factor taken for every token sequence
C12_AsStated ==
    (op = OpRepetition /\ ~IsBlank(target_text)) =>
        /\ ~Raised(ret)
        /\ \A grams \in {RefGrams} :
              \A i \in 1..Len(ret.value.ngram_scores) :
                  \A g \in {grams[ret.value.ngram_scores[i][1]]} :
                      ret.value.ngram_scores[i][2] = RefRepetitionAlways(g)

(***************************************************************************)
(* C13: Repetition's score is (1 - max_repetition) * 100, max_repetition   *)
(* being the largest per-size value over the sizes 2..max_ngram_size with  *)
(* at least n tokens and 0 when there is no such size (a non-blank target  *)
(* of fewer than 2 tokens scores 100); the warning is issued exactly when  *)
(* max_repetition > threshold; an empty or blank target scores 0 with the  *)
(* warning "Empty translation".                                            *)
(***************************************************************************)
RefMaxRepetition ==
    Let(RefGrams, LAMBDA grams :
        IF DOMAIN grams = {} THEN Z(0)
        ELSE Let({RefRepetition(grams[n]) : n \in DOMAIN grams},
                 LAMBDA vals : CHOOSE v \in vals : \A w \in vals : RLe(w, v)))

C13_RepetitionScore ==
    op = OpRepetition =>
        /\ ~Raised(ret)
        /\ IF IsBlank(target_text)
           THEN /\ ret.value.score = Z(0)
                /\ ret.value.warning = <<"Empty translation">>
           ELSE \A most \in {RefMaxRepetition} :
                /\ ret.value.repetition_score = most
                /\ ret.value.score = RMul(RSub(Z(1), most), Z(100))
                /\ (ret.value.warning # NoWarning) <=> RLt(Q(3, 10), most)
                /\ Len(RefTokens) < 2 => ret.value.score = Z(100)

\* a repetition exactly at the threshold: score 70 and no warning
C13_Witness ==
    /\ op = OpRepetition
    /\ ~IsBlank(target_text)
    /\ ret.value.score = Z(70)
    /\ RefMaxRepetition = Q(3, 10)
    /\ ret.value.warning = NoWarning

(***************************************************************************)
(* C14: with the default parameters, a non-blank target whose lower-cased  *)
(* whitespace tokens are pairwise distinct gets a Repetition score > 70    *)
(* and no warning, and a target made of k >= 3 copies of one token gets a  *)
(* score < 50 and a warning.                                               *)
(***************************************************************************)
RefPairwiseDistinct(tokens) == Cardinality(Range(tokens)) = Len(tokens)
RefCopies(tokens) == Len(tokens) >= 3 /\ Cardinality(Range(tokens)) = 1

C14_DistinctAndCopies ==
    op = OpRepetition =>
        \A tokens \in {RefTokens} :
            /\ (tokens # <<>> /\ RefPairwiseDistinct(tokens)) =>
                  /\ RLt(Z(70), ret.value.score)
                  /\ ret.value.warning = NoWarning
            /\ RefCopies(tokens) =>
                  /\ RLt(ret.value.score, Z(50))
                  /\ ret.value.warning # NoWarning

\* five distinct tokens, with n-grams of every size, score 100
C14_Witness ==
    /\ op = OpRepetition
    /\ Len(RefTokens) = 5
    /\ RefPairwiseDistinct(RefTokens)
    /\ Len(ret.value.ngram_scores) = 3
    /\ ret.value.score = Z(100)

\* C14 as stated: a target without any token has pairwise distinct tokens too
C14_AsStated ==
    op = OpRepetition =>
        \A tokens \in {RefTokens} :
            /\ RefPairwiseDistinct(tokens) =>
                  /\ RLt(Z(70), ret.value.score)
                  /\ ret.value.warning = NoWarning
            /\ RefCopies(tokens) =>
                  /\ RLt(ret.value.score, Z(50))
                  /\ ret.value.warning # NoWarning

(***************************************************************************)
(* C15: Preservation's component scores equal their references: numbers    *)
(* and entities are |set(source items) /\ set(target items)| /             *)
(* |set(source items)| * 100, and 100 when the source has no such item, so *)
(* the numbers score is 100 iff every distinct source number occurs in the *)
(* target; punctuation is the fraction of the source's punctuation         *)
(* characters, each occurrence counted, that occur anywhere in the         *)
(* target's punctuation, times 100, and 100 when the source has none.      *)
(***************************************************************************)
RefSetScore(source_items, target_items) ==
    IF source_items = <<>> THEN Z(100)
    ELSE RMul(Q(Cardinality(Range(source_items) \cap Range(target_items)),
                Cardinality(Range(source_items))), Z(100))
RefPunctuation(text) == SelectSeq(text, LAMBDA c : c \in Punctuation)
RefPunctuationScore ==
    LET sp == RefPunctuation(source_text)
        tp == RefPunctuation(target_text)
    IN  IF sp = <<>> THEN Z(100)
        ELSE RMul(Q(Cardinality({i \in 1..Len(sp) : \E j \in 1..Len(tp) : tp[j] = sp[i]}),
                    Len(sp)), Z(100))
RefComponent(name) ==
    IF name = "numbers"
    THEN RefSetScore(extract_numbers(source_text), extract_numbers(target_text))
    ELSE IF name = "entities"
    THEN RefSetScore(extract_capitalized_words(source_text),
                     extract_capitalized_words(target_text))
    ELSE RefPunctuationScore

C15_ComponentScores ==
    (op = OpPreservation /\ ~IsBlank(target_text)) =>
        /\ ~Raised(ret)
        /\ \A i \in 1..Len(ret.value.component_scores) :
              \A c \in {ret.value.component_scores[i]} :
                  /\ c[1] \in {"numbers", "punctuation", "entities"}
                  /\ c[2] = RefComponent(c[1])
                  /\ c[1] = "numbers" =>
                        ((c[2] = Z(100)) <=>
                            (Range(extract_numbers(source_text))
                                \subseteq Range(extract_numbers(target_text))))

\* one of two source numbers kept, two of two punctuation marks found
C15_Witness ==
    /\ op = OpPreservation
    /\ ~IsBlank(target_text)
    /\ Len(extract_numbers(source_text)) = 2
    /\ ret.value.component_scores =
           <<<<"numbers", Z(50)>>, <<"punctuation", Z(100)>>, <<"entities", Z(100)>>>>

(***************************************************************************)
(* C16: for a non-blank target and each of the 8 settings of the three     *)
(* toggles, Preservation's overall score is the unweighted mean of exactly *)
(* the enabled component scores (100 when none is enabled),                *)
(* component_scores holds exactly the enabled components, and the warning  *)
(* is the triggered warnings joined by "; " in the order numbers,          *)
(* punctuation, entities (absent when none triggered); an empty or blank   *)
(* target scores 0 with "Empty translation" whatever the toggles.          *)
(***************************************************************************)
RefToggle(name) ==
    Leaf(<<"metrics", "heuristics", "preservation", "check_" \o name>>, TRUE)
RefEnabled == SelectSeq(<<"numbers", "punctuation", "entities">>, RefToggle)
RefTriggered(name) ==
    IF name = "numbers" THEN RLt(RefComponent(name), Z(100))
    ELSE RLt(RefComponent(name), Z(80))
RefMissing ==
    Len(extract_numbers(source_text))
    - Cardinality(Range(extract_numbers(source_text))
                  \cap Range(extract_numbers(target_text)))
RefWarning(name) ==
    IF name = "numbers"
    THEN <<"Potential content loss detected", ": ", ToString(RefMissing),
           " number(s) not preserved">>
    ELSE IF name = "punctuation"
    THEN <<"Format preservation issues detected", ": punctuation pattern differs">>
    ELSE <<"Potential content loss detected", ": some capitalized words not preserved">>
RECURSIVE RefJoined(_)
RefJoined(names) ==
    IF names = <<>> THEN <<>>
    ELSE RefWarning(Head(names))
         \o (IF Len(names) > 1 THEN <<"; ">> ELSE <<>>)
         \o RefJoined(Tail(names))
RECURSIVE RefTotal(_)
RefTotal(names) ==
    IF names = <<>> THEN Z(0)
    ELSE RAdd(RefComponent(Head(names)), RefTotal(Tail(names)))
RefMean(names) ==
    IF names = <<>> THEN Z(100) ELSE RDiv(RefTotal(names), Z(Len(names)))

C16_ToggledMean ==
    op = OpPreservation =>
        IF IsBlank(target_text)
        THEN ret = Return([score |-> Z(0), warning |-> <<"Empty translation">>])
        ELSE /\ ~Raised(ret)
             /\ [i \in 1..Len(ret.value.component_scores)
                    |-> ret.value.component_scores[i][1]] = RefEnabled
             /\ ret.value.score = RefMean(RefEnabled)
             /\ ret.value.warning = RefJoined(SelectSeq(RefEnabled, RefTriggered))

\* numbers switched off, half the punctuation and none of the capitalised
\* words kept: two components, two warnings
C16_Witness ==
    /\ op = OpPreservation
    /\ ~IsBlank(target_text)
    /\ ~RefToggle("numbers")
    /\ Len(ret.value.component_scores) = 2
    /\ ret.value.score = Z(25)
    /\ ret.value.warning =
           <<"Format preservation issues detected", ": punctuation pattern differs", "; ",
             "Potential content loss detected", ": some capitalized words not preserved">>

(***************************************************************************)
(* C17: SemanticSimilarity.evaluate never raises: an empty source or       *)
(* target yields score 0 with warning "Empty text"; any failure of model   *)
(* construction or encoding is caught and yields score 0 with a            *)
(* descriptive warning; otherwise the score is max(0, similarity) * 100,   *)
(* so a negative similarity, and a zero-norm vector, give score 0.         *)
(***************************************************************************)
RefDot(a, b) == a[1] * b[1] + a[2] * b[2]
RefZeroNorm(a) == a[1] = 0 /\ a[2] = 0

C17_SemanticNeverRaises ==
    op = OpSemantic =>
        /\ ~Raised(ret)
        /\ IF IsEmpty(source_text) \/ IsEmpty(target_text)
           THEN ret.value.score = Z(0) /\ ret.value.warning = <<"Empty text">>
           ELSE IF Raised(embeddings)
           THEN /\ ret.value.score = Z(0)
                /\ ret.value.warning # NoWarning
                /\ ret.value.warning[Len(ret.value.warning)] = embeddings.raised
           ELSE \A e \in {embeddings.value} :
                /\ ret.value.warning = NoWarning
                /\ ret.value.score
                       = Float(RMul(RMax(Z(0), ret.value.similarity), Z(100)))
                /\ RLt(ret.value.similarity, Z(0)) <=> RefDot(e[1], e[2]) < 0
                /\ RefDot(e[1], e[2]) < 0 => ret.value.score = Z(0)
                /\ (RefZeroNorm(e[1]) \/ RefZeroNorm(e[2])) => ret.value.score = Z(0)

\* opposed embeddings: the similarity is negative and the score is 0
C17_Witness ==
    /\ op = OpSemantic
    /\ ~IsEmpty(source_text)
    /\ ~IsEmpty(target_text)
    /\ ~Raised(embeddings)
    /\ RLt(ret.value.similarity, Z(0))
    /\ ret.value.score = Z(0)
    /\ ret.value.warning = NoWarning

(***************************************************************************)
(* C18: over any sequence of evaluate calls on one SemanticSimilarity      *)
(* instance, the embedding model is not constructed before the first call  *)
(* that needs it, is constructed from the configured model identifier on   *)
(* that call, and once a construction has succeeded the same model object  *)
(* is reused by every later call and is never constructed again or         *)
(* replaced.                                                               *)
(***************************************************************************)
RefNeedsModel(t) == ~IsEmpty(local[t].source) /\ ~IsEmpty(local[t].target)
RefSucceeded == {i \in 1..Len(constructed) : constructed[i].ok}

C18_LazyModelStep ==
    \* a construction happens inside a call that needs the model, while none
    \* is held, and from the configured identifier
    /\ constructed' # constructed =>
          /\ _model = None
          /\ RefSucceeded = {}
          /\ \E t \in DOMAIN pc : pc[t] # "idle" /\ RefNeedsModel(t)
          /\ Len(constructed') = Len(constructed) + 1
          /\ constructed'[Len(constructed')].model_name = model_name
    \* a call that needed the model does not return without a construction
    /\ \A t \in DOMAIN pc :
          (pc[t] # "idle" /\ pc'[t] = "idle") => constructed' # <<>>
    \* the object held is the one that was constructed, and it stays
    /\ _model' # _model =>
          /\ _model = None
          /\ RefSucceeded = {Len(constructed)}
          /\ _model' = ToString(Len(constructed))
    /\ _model # None => (_model' = _model /\ constructed' = constructed)
    \* every encode is called on the object held
    /\ used' # used => (_model # None /\ used' = Append(used, _model))

C18_LazyModel == [][C18_LazyModelStep]_vars

\* a first call whose construction failed, then two calls encoding on the
\* object the second call constructed
C18_Witness ==
    /\ Len(constructed) = 2
    /\ ~constructed[1].ok
    /\ constructed[2].ok
    /\ _model = "2"
    /\ used = <<"2", "2">>
    /\ started = 3

(***************************************************************************)
(* C19: when several evaluate calls on the same SemanticSimilarity         *)
(* instance reach first use of the model concurrently, the model is loaded *)
(* exactly once: every interleaving ends with one construction, and the    *)
(* other callers wait for or observe that already-loaded instance.         *)
(***************************************************************************)
C19_LoadedOnce ==
    /\ Cardinality(RefSucceeded) <= 1
    /\ \A i \in 1..Len(used) : RefSucceeded = {k \in 1..Len(constructed) : ToString(k) = used[i]}

(***************************************************************************)
(* C20: the explanation produced by fusion names the tier Excellent when   *)
(* overall_score >= 90, Good when >= 75, Fair when >= 60 and Poor          *)
(* otherwise, followed by at most three kept metrics: those with the       *)
(* largest value*weight, in descending order of value*weight, ties kept in *)
(* evaluation order, and fewer than three names when fewer metrics were    *)
(* kept.                                                                   *)
(***************************************************************************)
RefTier(score) ==
    IF RLe(Z(90), score) THEN "Excellent"
    ELSE IF RLe(Z(75), score) THEN "Good"
    ELSE IF RLe(Z(60), score) THEN "Fair"
    ELSE "Poor"
RefKey(m) == RMul(m.value, m.weight)
\* positions of the kept metrics, best first: keys never rise, equal keys
\* stay in evaluation order, and nothing left out would go before the last
RefRanking(metrics, picks) ==
    /\ \A r, q \in DOMAIN picks : r < q =>
          \/ RLt(RefKey(metrics[picks[q]]), RefKey(metrics[picks[r]]))
          \/ (RefKey(metrics[picks[q]]) = RefKey(metrics[picks[r]]) /\ picks[r] < picks[q])
    /\ \A j \in DOMAIN metrics : (\A r \in DOMAIN picks : picks[r] # j) =>
          \A r \in DOMAIN picks :
              \/ RLt(RefKey(metrics[j]), RefKey(metrics[picks[r]]))
              \/ (RefKey(metrics[j]) = RefKey(metrics[picks[r]]) /\ picks[r] < j)

C20_Explanation ==
    op = OpFuse =>
        \A b \in {ret.value} :
            /\ b.explanation.quality = RefTier(b.overall_score)
            /\ Len(b.explanation.top_names)
                   = (IF Len(b.metrics) < 3 THEN Len(b.metrics) ELSE 3)
            /\ \E picks \in [DOMAIN b.explanation.top_names -> DOMAIN b.metrics] :
                  /\ RefRanking(b.metrics, picks)
                  /\ \A r \in DOMAIN picks :
                        b.explanation.top_names[r] = title(b.metrics[picks[r]].name)

\* four kept metrics of weight 1 scoring 80, 100, 40, 80: the mean is the
\* boundary 75, and the two that tie at 80 follow in evaluation order
C20_Witness ==
    /\ op = OpFuse
    /\ Len(ret.value.metrics) = 4
    /\ \A i \in 1..4 : ret.value.metrics[i].weight = Z(1)
    /\ ret.value.overall_score = Z(75)
    /\ ret.value.explanation.quality = "Good"
    /\ ret.value.explanation.top_names
           = <<"Length Ratio", "Language Detection", "Preservation">>

(***************************************************************************)
(* C21: in every ScoreBreakdown returned by evaluate_translation, metrics  *)
(* lists the kept metrics in evaluation order (language_detection,         *)
(* length_ratio, repetition, preservation, semantic_similarity), and       *)
(* warnings holds exactly one string per kept metric that raised a         *)
(* warning, in the same order, each prefixed with that metric's name; each *)
(* MetricResult's value equals the score of the metric's outcome.          *)
(***************************************************************************)
RefOrder == <<"language_detection", "length_ratio", "repetition", "preservation",
              "semantic_similarity">>
RefOutcome(name) ==
    metric_results[CHOOSE i \in 1..Len(metric_results) : metric_results[i][1] = name][2]
RefKept == SelectSeq(RefOrder, LAMBDA m : m \in Names(metric_results)
                                          /\ RLt(Z(0), ResolvedWeight(m)))
RefWarned == SelectSeq(RefKept, LAMBDA m : RefOutcome(m).warning # NoWarning)

C21_BreakdownOrder ==
    (op = OpEvaluate /\ ~Raised(ret)) =>
        \A b \in {ret.value.score_breakdown} :
            /\ [i \in 1..Len(b.metrics) |-> b.metrics[i].name] = RefKept
            /\ \A i \in 1..Len(b.metrics) :
                  b.metrics[i].value = RefOutcome(b.metrics[i].name).score
            /\ Len(b.warnings) = Len(RefWarned)
            /\ \A i \in 1..Len(b.warnings) :
                  b.warnings[i] = <<RefWarned[i], ": ">> \o RefOutcome(RefWarned[i]).warning

\* three kept metrics or more, two of them with a warning and one without
C21_Witness ==
    /\ op = OpEvaluate
    /\ ~Raised(ret)
    /\ Len(ret.value.score_breakdown.metrics) >= 3
    /\ Len(ret.value.score_breakdown.warnings) = 2
    /\ ret.value.score_breakdown.warnings[1][1] # ret.value.score_breakdown.metrics[1].name
    /\ \E i \in 1..Len(ret.value.score_breakdown.metrics) :
          ret.value.score_breakdown.metrics[i].weight = Z(2)

(***************************************************************************)
(* C22: calling any metric twice on the same instance with identical       *)
(* inputs (and identical detector/backend answers) yields identical        *)
(* outcomes: no call changes state that a later call's score, warning or   *)
(* details depends on, and an evaluation's result does not depend on which *)
(* evaluations ran before it.                                              *)
(***************************************************************************)
RefSameCall(a, b) ==
    /\ a.op = b.op
    /\ a.source = b.source
    /\ a.target = b.target
    /\ a.lang = b.lang
    /\ a.detector = b.detector
    /\ a.backend = b.backend

C24_DegenerateTarget ==
    (/\ op \in MetricOps
     /\ IsEmpty(target_text) \/ IsBlank(target_text)
     /\ op \in {OpLength, OpPreservation, OpSemantic} => ~IsEmpty(source_text)) =>
        /\ ~Raised(ret)
        /\ ret.value.score = Z(0)
        /\ ret.value.warning # NoWarning

(***************************************************************************)
(* C25: when Preservation's numbers score is below 100, the count named in *)
(* its warning is the number of distinct source numbers that do not occur  *)
(* in the target, i.e. |source_set| - |source_set /\ target_set|, also     *)
(* when the source repeats a number.                                       *)
(***************************************************************************)
RefDistinctMissing ==
    Cardinality(Range(extract_numbers(source_text)) \ Range(extract_numbers(target_text)))

C25_MissingCount ==
    (/\ op = OpPreservation
     /\ ~IsBlank(target_text)
     /\ RefToggle("numbers")
     /\ RLt(RefComponent("numbers"), Z(100))) =>
        /\ ~Raised(ret)
        /\ Len(ret.value.warning) >= 4
        /\ ret.value.warning[4] = " number(s) not preserved"
        /\ ret.value.warning[3] = ToString(RefDistinctMissing)

(***************************************************************************)
(* C29: _generate_summary ranks every result exactly once with ranks 1..n  *)
(* in non-increasing order of overall_score, results of equal score        *)
(* keeping their input order; total_providers is the number of results;    *)
(* best_provider and best_score are those of rank 1 and are absent only    *)
(* when there are no results.                                              *)
(***************************************************************************)
\* the position in results of the result ranked k-th (providers are named
\* after their position)
RefRanked(results, rankings, k) ==
    CHOOSE i \in 1..Len(results) :
        results[i].translation.provider_name = rankings[k].provider

RefScore(result) == result.evaluation.score_breakdown.overall_score

C29_Summary ==
    "summary" \in DOMAIN fetched =>
        LET results == fetched.results
            summary == fetched.summary
            rankings == summary.rankings
            n == Len(results)
        IN  /\ summary.total_providers = n
            /\ Len(rankings) = n
            /\ \A i \in 1..n :
                   Cardinality({k \in 1..n :
                       rankings[k].provider = results[i].translation.provider_name}) = 1
            /\ \A k \in 1..n :
                   /\ rankings[k].rank = k
                   /\ rankings[k].score = RefScore(results[RefRanked(results, rankings, k)])
                   /\ rankings[k].model =
                          results[RefRanked(results, rankings, k)].translation.model_id
            /\ \A k, l \in 1..n :
                   k < l =>
                       /\ RLe(rankings[l].score, rankings[k].score)
                       /\ rankings[k].score = rankings[l].score =>
                              RefRanked(results, rankings, k)
                                  < RefRanked(results, rankings, l)
            /\ IF n = 0
               THEN summary.best_provider = None /\ summary.best_score = None
               ELSE /\ summary.best_provider = rankings[1].provider
                    /\ summary.best_score = rankings[1].score
                    /\ summary.best_provider # None

\* three results, the best of them last and the other two tied
C29_Witness ==
    /\ "summary" \in DOMAIN fetched
    /\ Len(fetched.results) = 3
    /\ RefScore(fetched.results[1]) = RefScore(fetched.results[2])
    /\ RLt(RefScore(fetched.results[1]), RefScore(fetched.results[3]))
    /\ fetched.summary.rankings[1].provider = "3"
    /\ fetched.summary.rankings[2].provider = "1"
    /\ fetched.summary.best_provider = "3"

(***************************************************************************)
(* C28: translate_with_timing never raises: an exception of a provider's   *)
(* translate becomes a TranslationResult with the exception's message as   *)
(* error and an empty output_text, so the gathered translations hold one   *)
(* result per created provider, in provider order, and a failing provider  *)
(* does not keep the results of the others from being stored and           *)
(* evaluated.                                                              *)
(***************************************************************************)
\* the positions in the request of the providers that can be created
RefCreated(r) ==
    LET RECURSIVE upto(_)
        upto(n) == IF n = 0 THEN <<>>
                   ELSE IF requests[r].providers[n].create
                        THEN Append(upto(n - 1), n)
                        ELSE upto(n - 1)
    IN  upto(Len(requests[r].providers))

RefGathered(r) == handlers[r].pc \in {"store", "commit", "done"}

RefStored(r, id) ==
    \E k \in 1..Len(database.translations) : database.translations[k].id = id

RefRowsOf(id) ==
    SelectSeq(database.evaluations, LAMBDA e : e.translation_id = id)

C28_FailuresContained ==
    \A r \in DOMAIN handlers :
        /\ RefGathered(r) =>
               LET created == RefCreated(r)
                   gathered == handlers[r].translation_results
               IN  /\ Len(gathered) = Len(created)
                   /\ \A k \in 1..Len(created) :
                          LET answer == requests[r].providers[created[k]].answer
                          IN  /\ gathered[k].provider_name = ToString(created[k])
                              /\ IF Raised(answer)
                                 THEN /\ gathered[k].error = answer.raised
                                      /\ gathered[k].output_text = <<>>
                                 ELSE /\ gathered[k].error = None
                                      /\ gathered[k].output_text = answer.value
        /\ handlers[r].pc = "failed" =>
               handlers[r].response.raised
                   \notin {requests[r].providers[n].answer.raised :
                               n \in {m \in 1..Len(requests[r].providers) :
                                         requests[r].providers[m].create}}
        /\ handlers[r].pc = "done" =>
               \A k \in 1..Len(handlers[r].translation_results) :
                   LET result == handlers[r].results_with_eval[k]
                   IN  /\ result.translation = handlers[r].translation_results[k]
                       /\ RefStored(r, result.evaluation.translation_id)
                       /\ result.translation.error = None =>
                              /\ RefRowsOf(result.evaluation.translation_id) # <<>>
                              /\ result.evaluation.score_breakdown.metrics # <<>>

\* the first provider fails, the second answers; both are stored and the
\* second is evaluated
C28_Witness ==
    \E r \in DOMAIN handlers :
        /\ handlers[r].pc = "done"
        /\ Len(handlers[r].translation_results) = 2
        /\ handlers[r].translation_results[1].error = "boom"
        /\ handlers[r].translation_results[2].error = None
        /\ Len(database.translations) = 2
        /\ RefRowsOf(handlers[r].results_with_eval[2].evaluation.translation_id) # <<>>
        /\ RefRowsOf(handlers[r].results_with_eval[1].evaluation.translation_id) = <<>>

(***************************************************************************)
(* C23: an EvaluationResult that run_translation stored as one evaluation  *)
(* row per kept metric and one overall_score row, rebuilt by get_run, has  *)
(* the overall_score, the explanation and the warnings of the original and *)
(* the same metric names and values; every rebuilt MetricResult has        *)
(* weight 0.                                                               *)
(***************************************************************************)
\* get_run answered with a run that handler r stored
RefFetchedRunOf(r) ==
    /\ "answer" \in DOMAIN fetched
    /\ ~Raised(fetched.answer)
    /\ handlers[r].pc = "done"
    /\ handlers[r].run_id = fetched.run_id

RefSameMetrics(original, rebuilt) ==
    /\ Len(rebuilt) = Len(original)
    /\ \A m \in 1..Len(original) :
           /\ rebuilt[m].name = original[m].name
           /\ rebuilt[m].value = original[m].value
           /\ rebuilt[m].weight = Z(0)

C23_RoundTrip ==
    \A r \in DOMAIN handlers :
        RefFetchedRunOf(r) =>
            /\ Len(fetched.answer.value.results) = Len(handlers[r].results_with_eval)
            /\ \A k \in 1..Len(handlers[r].results_with_eval) :
                   k \in {handlers[r].evaluated[e] : e \in 1..Len(handlers[r].evaluated)} =>
                       LET original ==
                               handlers[r].results_with_eval[k].evaluation.score_breakdown
                           rebuilt ==
                               fetched.answer.value.results[k].evaluation.score_breakdown
                       IN  /\ rebuilt.overall_score = original.overall_score
                           /\ rebuilt.explanation = original.explanation
                           /\ rebuilt.warnings = original.warnings
                           /\ RefSameMetrics(original.metrics, rebuilt.metrics)

\* a stored evaluation with metrics of weight above 0 and with a warning
\* comes back
C23_Witness ==
    \E r \in DOMAIN handlers :
        /\ RefFetchedRunOf(r)
        /\ handlers[r].evaluated # <<>>
        /\ \E k \in 1..Len(handlers[r].results_with_eval) :
               LET original == handlers[r].results_with_eval[k].evaluation.score_breakdown
                   rebuilt == fetched.answer.value.results[k].evaluation.score_breakdown
               IN  /\ Len(original.metrics) >= 3
                   /\ original.metrics[1].weight # Z(0)
                   /\ original.warnings # <<>>
                   /\ rebuilt.warnings = original.warnings
                   /\ RLt(Z(0), rebuilt.overall_score)

(***************************************************************************)
(* C30: for every translation of a run, one that failed upstream included, *)
(* the score_breakdown get_run returns for the stored run has the          *)
(* overall_score, the explanation and the warnings of the one the          *)
(* run_translation call returned, so both responses have the same          *)
(* rankings.                                                               *)
(***************************************************************************)
C30_SameBreakdown ==
    \A r \in DOMAIN handlers :
        RefFetchedRunOf(r) =>
            /\ Len(fetched.answer.value.results) = Len(handlers[r].results_with_eval)
            /\ \A k \in 1..Len(handlers[r].results_with_eval) :
                   LET original ==
                           handlers[r].results_with_eval[k].evaluation.score_breakdown
                       rebuilt ==
                           fetched.answer.value.results[k].evaluation.score_breakdown
                   IN  /\ rebuilt.overall_score = original.overall_score
                       /\ rebuilt.explanation = original.explanation
                       /\ rebuilt.warnings = original.warnings
            /\ fetched.answer.value.summary.rankings
                   = handlers[r].response.value.summary.rankings

(***************************************************************************)
(* C26: in run_translation a translation whose result carries an error is  *)
(* never passed to the evaluator and gets no evaluation row; the response  *)
(* holds for it a synthetic EvaluationResult with overall_score 0, no      *)
(* metrics, the error as the only warning and the explanation              *)
(* "Translation failed"; a translation without error is evaluated exactly  *)
(* once and gets one row per kept metric and exactly one overall_score     *)
(* row.                                                                    *)
(***************************************************************************)
\* the rows of a translation, committed or waiting on the connection
RefVisibleRowsOf(id) ==
    SelectSeq(Visible("evaluations"), LAMBDA e : e.translation_id = id)

RefTimesEvaluated(r, k) ==
    Cardinality({e \in 1..Len(handlers[r].evaluated) : handlers[r].evaluated[e] = k})

C26_FailedNotEvaluated ==
    \A r \in DOMAIN handlers :
        handlers[r].pc \in {"store", "commit", "done"} =>
            \A k \in 1..Len(handlers[r].results_with_eval) :
                LET result == handlers[r].results_with_eval[k]
                    breakdown == result.evaluation.score_breakdown
                    rows == RefVisibleRowsOf(result.evaluation.translation_id)
                IN  IF result.translation.error # None
                    THEN /\ RefTimesEvaluated(r, k) = 0
                         /\ rows = <<>>
                         /\ breakdown.overall_score = Z(0)
                         /\ breakdown.metrics = <<>>
                         /\ breakdown.warnings = <<<<result.translation.error>>>>
                         /\ breakdown.explanation = Literal("Translation failed")
                    ELSE /\ RefTimesEvaluated(r, k) = 1
                         /\ Len(rows) = Len(breakdown.metrics) + 1
                         /\ \A m \in 1..Len(breakdown.metrics) :
                                rows[m].metric_name = breakdown.metrics[m].name
                         /\ rows[Len(rows)].metric_name = "overall_score"

(***************************************************************************)
(* C27: the records of one run_translation request are persisted all or    *)
(* nothing: either the run row, every translation row and every evaluation *)
(* row of the request are committed together, or, when the request fails   *)
(* at any step, none of them is committed.                                 *)
(***************************************************************************)
\* how many rows of request r are committed
RefCommitted(r) ==
    Len(SelectSeq(database.runs, LAMBDA row : row.request = r))
    + Len(SelectSeq(database.translations, LAMBDA row : row.request = r))
    + Len(SelectSeq(database.evaluations, LAMBDA row : row.request = r))

C27_AllOrNothing ==
    \A r \in DOMAIN handlers :
        IF handlers[r].pc = "done"
        THEN /\ RefCommitted(r) = handlers[r].writes
             /\ Len(SelectSeq(database.runs, LAMBDA row : row.request = r)) = 1
             /\ Len(SelectSeq(database.translations, LAMBDA row : row.request = r))
                    = Len(handlers[r].translation_results)
        ELSE RefCommitted(r) = 0

====
